---- MODULE Spec2Model ----
(***************************************************************************)
(* Model of the UV data pipeline of AstronomicalAPI (kuleje/sun_thing):    *)
(* getUVForecast, getHistoricalUVData, groupUVDataByIndex and              *)
(* getFallbackUVData.                                                      *)
(*                                                                         *)
(* Units.  A Date is the number of minutes of local wall-clock time since  *)
(* 00:00 of the first day of the month (a fixed-offset time zone: no       *)
(* daylight-saving shift inside the modelled days).  A UV value is an      *)
(* integer number of twentieths (uv * 20), so 3.0 is 60 and 0.25 is 5.     *)
(* startHour and endHour of a group are kept in minutes (hours * 60), so   *)
(* the fraction getMinutes()/60 is exact.                                  *)
(*                                                                         *)
(* Scope.  One getUVForecast call on a freshly constructed AstronomicalAPI *)
(* (both caches empty), split at its awaits: the start of the call, every  *)
(* historical request, the end of the historical requests, and the         *)
(* forecast response, which is merged, de-duplicated and grouped in the    *)
(* same step.  Of the returned object the fields hourly and grouped are    *)
(* kept; source records which return statement produced it.  Array.sort is *)
(* stable (ECMAScript 2019).  Every new Date() of the call reads the same  *)
(* instant, now.                                                           *)
(***************************************************************************)
EXTENDS Integers, Sequences, FiniteSets, TLC

(***************************************************************************)
(* Bounds of the model.                                                    *)
(***************************************************************************)
\* longest forecast response (entries of forecastData.hourly)
MaxForecast == 2
\* most historical requests whose outcome is not the nominal reading
MaxAnomalies == 1

(***************************************************************************)
(* Program constants.                                                      *)
(***************************************************************************)
\* 60 * 60 * 1000 ms, in minutes
HourMs == 60
\* 24 * 60 * 60 * 1000 ms, in minutes
DayMs == 1440
\* const maxHours = 12
maxHours == 12
\* forecastData.hourly?.slice(0, 48)
ForecastSlice == 48
\* tomorrowStart.getTime() + 6 * 60 * 60 * 1000
CutoffHours == 6
\* for (let i = 0; i < 24; i++)
FallbackHours == 24
\* hourOfDay >= 6
FallbackFirstHour == 6
\* hourOfDay <= 18
FallbackLastHour == 18
\* Math.abs(12 - hourOfDay)
FallbackNoon == 12
\* 8 - ..., in twentieths
FallbackPeak == 160
\* distanceFromNoon * 1.2, in twentieths
FallbackDecay == 24

(***************************************************************************)
(* Inputs the environment can supply.                                      *)
(***************************************************************************)
\* instants at which getUVForecast is called (07:20 and 22:15 of day 0)
NowTimes == {440, 1335}
\* sunData.sunrise.getHours()
SunriseHours == {4, 20}
\* the reading most historical requests return (3.0)
NominalReadings == {60}
\* the other readings a historical request can return (0 and 0.25)
OtherReadings == {0, 5}
\* hour.uvi of a forecast entry (0.2, 3.1, 3.4); 0.2 rounds to 0 and stands
\* for an absent or zero uvi too, which the forecast path treats alike
ForecastReadings == {4, 62, 68}
\* hour.dt of a forecast entry, in hours from the start of the current hour
ForecastOffsets == {-1, 0, 1, 2}
\* minutes past the local hour at which the forecast's UTC hours fall
ZoneMinutes == {0, 30}

\* a failed historical request (.catch returns null)
Null == [failed |-> TRUE]

(***************************************************************************)
(* Date accessors.                                                         *)
(***************************************************************************)
getHours(t) == (t \div HourMs) % 24
getMinutes(t) == t % HourMs
\* day of the month, 1..31
getDate(t) == ((t \div DayMs) % 31) + 1
\* new Date(y, m, d, h): the start of the hour of t
HourStart(t) == t - getMinutes(t)
\* new Date(y, m, d): the start of the day of t
DayStart(t) == t - (t % DayMs)

Abs(x) == IF x < 0 THEN -x ELSE x
Max(a, b) == IF a >= b THEN a ELSE b

Sample(t, u) == [time |-> t, uv |-> u, hour |-> getHours(t)]

(***************************************************************************)
(* Array helpers.                                                          *)
(***************************************************************************)
\* all sequences over S of length at most n
SeqsUpTo(S, n) == UNION {[1..k -> S] : k \in 0..n}

(***************************************************************************)
(* allHourlyData.sort((a, b) => a.time - b.time): a stable sort.           *)
(***************************************************************************)
\* an unstable variant: an equal time goes in front of the earlier element
RECURSIVE InsertByTime_Unstable(_, _)
InsertByTime_Unstable(sorted, x) ==
    IF sorted = <<>> THEN <<x>>
    ELSE IF Head(sorted).time < x.time
         THEN <<Head(sorted)>> \o InsertByTime_Unstable(Tail(sorted), x)
         ELSE <<x>> \o sorted

RECURSIVE InsertByTime(_, _)
InsertByTime(sorted, x) ==
    IF sorted = <<>> THEN <<x>>
    ELSE IF Head(sorted).time <= x.time
         THEN <<Head(sorted)>> \o InsertByTime(Tail(sorted), x)
         ELSE <<x>> \o sorted

\* the sort left out
SortByTime_Missing(s) == s

RECURSIVE SortByTime(_)
SortByTime(s) ==
    IF s = <<>> THEN <<>>
    ELSE InsertByTime(SortByTime(SubSeq(s, 1, Len(s) - 1)), s[Len(s)])

(***************************************************************************)
(* Duplicate removal of getUVForecast.                                     *)
(***************************************************************************)
\* `${hourData.time.getDate()}_${hourData.time.getHours()}`
hourKey(hourData) == <<getDate(hourData.time), getHours(hourData.time)>>

\* the key never recorded as seen
RECURSIVE RemoveDuplicates_NoAdd(_, _, _)
RemoveDuplicates_NoAdd(rest, seenHours, unique) ==
    IF rest = <<>> THEN unique
    ELSE IF hourKey(Head(rest)) \notin seenHours
         THEN RemoveDuplicates_NoAdd(Tail(rest), seenHours, Append(unique, Head(rest)))
         ELSE RemoveDuplicates_NoAdd(Tail(rest), seenHours, unique)

RECURSIVE RemoveDuplicates(_, _, _)
RemoveDuplicates(rest, seenHours, unique) ==
    IF rest = <<>> THEN unique
    ELSE IF hourKey(Head(rest)) \notin seenHours
         THEN RemoveDuplicates(Tail(rest), seenHours \cup {hourKey(Head(rest))},
                               Append(unique, Head(rest)))
         ELSE RemoveDuplicates(Tail(rest), seenHours, unique)

(***************************************************************************)
(* groupUVDataByIndex.                                                     *)
(***************************************************************************)
\* Math.round(uv * 2) / 2: nearest 0.5, ties towards +infinity
roundedUV(uv) == ((uv + 5) \div 10) * 10

NewGroup(hourData) ==
    [uvIndex   |-> roundedUV(hourData.uv),
     startTime |-> hourData.time,
     endTime   |-> hourData.time + HourMs,
     startHour |-> getHours(hourData.time) * 60 + getMinutes(hourData.time),
     endHour   |-> (getHours(hourData.time) + 1) * 60 + getMinutes(hourData.time),
     hours     |-> <<hourData>>]

\* endHour left at the value of the group's first hour
ExtendGroup_StaleEndHour(currentGroup, hourData) ==
    [currentGroup EXCEPT
        !.endTime = hourData.time + HourMs,
        !.hours   = Append(@, hourData)]

ExtendGroup(currentGroup, hourData) ==
    [currentGroup EXCEPT
        !.endTime = hourData.time + HourMs,
        !.endHour = (getHours(hourData.time) + 1) * 60 + getMinutes(hourData.time),
        !.hours   = Append(@, hourData)]

\* the unrounded value compared with the group's index
RECURSIVE GroupScan_RawCompare(_, _, _)
GroupScan_RawCompare(rest, grouped, currentGroup) ==
    IF rest = <<>> THEN grouped \o currentGroup
    ELSE IF currentGroup = <<>> \/ currentGroup[1].uvIndex # Head(rest).uv
         THEN GroupScan_RawCompare(Tail(rest), grouped \o currentGroup,
                                   <<NewGroup(Head(rest))>>)
         ELSE GroupScan_RawCompare(Tail(rest), grouped,
                                   <<ExtendGroup(currentGroup[1], Head(rest))>>)

\* the last group forgotten
RECURSIVE GroupScan_DropsLast(_, _, _)
GroupScan_DropsLast(rest, grouped, currentGroup) ==
    IF rest = <<>> THEN grouped
    ELSE IF currentGroup = <<>> \/ currentGroup[1].uvIndex # roundedUV(Head(rest).uv)
         THEN GroupScan_DropsLast(Tail(rest), grouped \o currentGroup,
                                  <<NewGroup(Head(rest))>>)
         ELSE GroupScan_DropsLast(Tail(rest), grouped,
                                  <<ExtendGroup(currentGroup[1], Head(rest))>>)

\* the for loop; currentGroup is <<>> for null and <<g>> otherwise
RECURSIVE GroupScan(_, _, _)
GroupScan(rest, grouped, currentGroup) ==
    IF rest = <<>> THEN grouped \o currentGroup
    ELSE IF currentGroup = <<>> \/ currentGroup[1].uvIndex # roundedUV(Head(rest).uv)
         THEN GroupScan(Tail(rest), grouped \o currentGroup, <<NewGroup(Head(rest))>>)
         ELSE GroupScan(Tail(rest), grouped,
                        <<ExtendGroup(currentGroup[1], Head(rest))>>)

\* the zero groups kept
KeepGroup_NonNegative(group) == group.uvIndex >= 0

KeepGroup(group) == group.uvIndex > 0

groupUVDataByIndex(hourlyData) ==
    IF Len(hourlyData) = 0 THEN <<>>
    ELSE SelectSeq(GroupScan(hourlyData, <<>>, <<>>), KeepGroup)

(***************************************************************************)
(* getFallbackUVData.                                                      *)
(***************************************************************************)
\* the evening bound taken as hourOfDay < 18
FallbackUV_StrictEvening(hourOfDay) ==
    IF hourOfDay >= FallbackFirstHour /\ hourOfDay < FallbackLastHour
    THEN Max(0, FallbackPeak - Abs(FallbackNoon - hourOfDay) * FallbackDecay)
    ELSE 0

FallbackUV(hourOfDay) ==
    IF hourOfDay >= FallbackFirstHour /\ hourOfDay <= FallbackLastHour
    THEN Max(0, FallbackPeak - Abs(FallbackNoon - hourOfDay) * FallbackDecay)
    ELSE 0

FallbackHourly(t) ==
    [i \in 1..FallbackHours |->
        Sample(t + (i - 1) * HourMs, FallbackUV(getHours(t + (i - 1) * HourMs)))]

PositiveUV(h) == h.uv > 0

getFallbackUVData(t) ==
    [source  |-> "fallback",
     hourly  |-> FallbackHourly(t),
     grouped |-> groupUVDataByIndex(SelectSeq(FallbackHourly(t), PositiveUV))]

(***************************************************************************)
(* State of one getUVForecast call.                                        *)
(***************************************************************************)
VARIABLES
    openWeatherApiKey, \* this.openWeatherApiKey: "" or a key
    location,          \* what getCurrentLocation resolves to: "null" or a place
    pc,                \* where the call is: idle, historical, forecast, done
    now,               \* new Date() of the call
    sunriseHour,       \* sunData.sunrise.getHours()
    current,           \* loop variable of getHistoricalUVData
    hourCount,         \* loop counter of getHistoricalUVData
    results,           \* outcomes of the historical requests, in request order
    anomalies,         \* how many of them are not the nominal reading
    forecastHourly,    \* the forecast samples kept by the window filter
    allHourlyData,     \* historical then forecast samples, then sorted
    uniqueHourlyData,  \* allHourlyData without duplicate hours
    uvData,            \* the value getUVForecast resolves to
    forecastData       \* hourly entries of a forecast response known beforehand

\* AstronomicalCalculations: the object and its last call
VARIABLES
    equinoxSolsticeData,  \* this.equinoxSolsticeData, set by the constructor
    op,                   \* the method called last
    today,                \* new Date() of findMatchingDayLength, or the
                          \* argument of getNextSolstice
    currentDayLength,     \* argument of findMatchingDayLength
    userLocation,         \* location argument of the call
    nextSolstice,         \* what getNextSolstice returned
    daysUntilSearchStart, \* local of findMatchingDayLength
    closestMatch,         \* what findMatchingDayLength returned
    date,                 \* argument of estimateDayLength
    dayLength,            \* what estimateDayLength returned
    selectedDate,         \* the date handleDateChangeDebounced was called for
    nextEvent             \* what getNextEquinoxOrSolstice returned

\* the JavaScript null
null == [isNull |-> TRUE]

dayVars == <<equinoxSolsticeData, op, today, currentDayLength, userLocation,
             nextSolstice, daysUntilSearchStart, closestMatch, date,
             dayLength, selectedDate, nextEvent>>

\* no call of the object is in progress and none has returned
NoCall ==
    /\ op = "none"
    /\ today = 0
    /\ currentDayLength = null
    /\ userLocation = null
    /\ nextSolstice = null
    /\ daysUntilSearchStart = 0
    /\ closestMatch = null
    /\ date = 0
    /\ dayLength = null
    /\ selectedDate = null
    /\ nextEvent = null

\* SunMoonApp in several tabs of one browser: the shared localStorage and
\* each tab's page
VARIABLES
    nextTab,      \* how many tabs were opened so far, plus one
    alive,        \* the tabs whose page is running
    activeTabs,   \* localStorage 'sun-moon-active-tabs': one entry per key
    sharedData,   \* localStorage 'sun-moon-data', or null
    loadPc,       \* where each tab is in loadAstronomicalData
    currentData   \* this.currentData of each tab

tabVars == <<nextTab, alive, activeTabs, sharedData, loadPc, currentData>>

MaxTabs == 2

\* tab ids in the order of their 'tab_' + Date.now() strings
TabIds == 1..MaxTabs

\* no tab was opened yet and localStorage is empty
NoTabs ==
    /\ nextTab = 1
    /\ alive = {}
    /\ activeTabs = {}
    /\ sharedData = null
    /\ loadPc = [t \in TabIds |-> "idle"]
    /\ currentData = [t \in TabIds |-> null]

\* date selection on the time circle of one page
VARIABLES
    dateRequests, \* the handleDateChange invocations so far, in order
    timeCircle    \* the data the circles were last updated with

dateVars == <<dateRequests, timeCircle>>

\* no date was selected yet
NoDates ==
    /\ dateRequests = <<>>
    /\ timeCircle = null

\* the AstronomicalAPI object (astronomical-api.js)
VARIABLES
    apiKey,       \* this.apiKey
    apiLocation,  \* this.userLocation
    cache,        \* this.cache: an entry or null for every cache key
    dailyCache,   \* this.dailyCache: the data of today, or null
    requests,     \* how many requests fetchFromAPI has sent
    apiOp,        \* the method called last
    apiCall,      \* what happened in that call
    apiResult     \* what that call returned or threw

apiVars == <<apiKey, apiLocation, cache, dailyCache, requests, apiOp,
             apiCall, apiResult>>

Endpoints == {"sun", "moon"}

\* the dates of the date parameter; the first is today
ParamDates == {"2025-08-31", "2025-09-01"}

\* getCacheKey: the endpoint and the JSON text of {date}
getCacheKey(endpoint, params) == <<endpoint, params.date>>

CacheKeys == {getCacheKey(e, [date |-> d]) : e \in Endpoints, d \in ParamDates}

\* the object as constructed, with a key and a location in localStorage
NoApi ==
    /\ apiKey = "key"
    /\ apiLocation = "L1"
    /\ cache = [k \in CacheKeys |-> null]
    /\ dailyCache = null
    /\ requests = 0
    /\ apiOp = "none"
    /\ apiCall = null
    /\ apiResult = null

otherVars == <<tabVars, dateVars, apiVars>>

NoOther == NoTabs /\ NoDates /\ NoApi

\* what the steps of getUVForecast leave alone
auxVars == <<forecastData, dayVars, otherVars>>

vars == <<openWeatherApiKey, location, pc, now, sunriseHour, current,
          hourCount, results, anomalies, forecastHourly, allHourlyData,
          uniqueHourlyData, uvData, auxVars>>

NoData == [source |-> "none", hourly |-> <<>>, grouped |-> <<>>]

Init ==
    /\ openWeatherApiKey \in {"", "key"}
    /\ location \in {"null", "place"}
    /\ pc = "idle"
    /\ now = 0
    /\ sunriseHour = 0
    /\ current = 0
    /\ hourCount = 0
    /\ results = <<>>
    /\ anomalies = 0
    /\ forecastHourly = <<>>
    /\ allHourlyData = <<>>
    /\ uniqueHourlyData = <<>>
    /\ uvData = NoData
    /\ forecastData = <<>>
    /\ equinoxSolsticeData = null
    /\ NoCall
    /\ NoOther

\* getUVForecast without an OpenWeatherMap key: the fallback at once
GetUVForecastNoKey ==
    /\ pc = "idle"
    /\ openWeatherApiKey = ""
    /\ \E t \in NowTimes :
          /\ now' = t
          /\ uvData' = getFallbackUVData(t)
    /\ pc' = "done"
    /\ UNCHANGED auxVars
    /\ UNCHANGED <<openWeatherApiKey, location, sunriseHour, current, hourCount, results, anomalies,
                   forecastHourly, allHourlyData, uniqueHourlyData>>

\* getUVForecast: no location, or getSunData rejects: the catch block
GetUVForecastError ==
    /\ pc = "idle"
    /\ openWeatherApiKey # ""
    /\ \E t \in NowTimes :
          /\ now' = t
          /\ uvData' = getFallbackUVData(t)
    /\ pc' = "done"
    /\ UNCHANGED auxVars
    /\ UNCHANGED <<openWeatherApiKey, location, sunriseHour, current, hourCount, results, anomalies,
                   forecastHourly, allHourlyData, uniqueHourlyData>>

\* getUVForecast with key, location and sun data, up to the first request
GetUVForecastStart ==
    /\ pc = "idle"
    /\ openWeatherApiKey # ""
    /\ location # "null"
    /\ \E t \in NowTimes, sr \in SunriseHours :
          /\ now' = t
          /\ sunriseHour' = sr
          /\ IF getHours(t) > sr
             THEN /\ pc' = "historical"
                  /\ current' = DayStart(t) + sr * HourMs
             ELSE /\ pc' = "forecast"
                  /\ current' = current
    /\ UNCHANGED auxVars
    /\ UNCHANGED <<openWeatherApiKey, location, hourCount, results, anomalies,
                   forecastHourly,
                   allHourlyData, uniqueHourlyData, uvData>>

\* the loop without its hourCount < maxHours condition
HistoricalRequest_NoCap ==
    /\ pc = "historical"
    /\ current <= HourStart(now)
    /\ \/ \E u \in NominalReadings :
             /\ results' = Append(results, Sample(current, u))
             /\ anomalies' = anomalies
       \/ /\ anomalies < MaxAnomalies
          /\ anomalies' = anomalies + 1
          /\ \/ results' = Append(results, Null)
             \/ \E u \in OtherReadings :
                   results' = Append(results, Sample(current, u))
    /\ current' = current + HourMs
    /\ hourCount' = hourCount + 1
    /\ UNCHANGED auxVars
    /\ UNCHANGED <<openWeatherApiKey, location, pc, now, sunriseHour,
                   forecastHourly, allHourlyData, uniqueHourlyData, uvData>>

\* one iteration of the while loop of getHistoricalUVData and the outcome of
\* the request it issues
HistoricalRequest ==
    /\ pc = "historical"
    /\ current <= HourStart(now)
    /\ hourCount < maxHours
    /\ \/ \E u \in NominalReadings :
             /\ results' = Append(results, Sample(current, u))
             /\ anomalies' = anomalies
       \/ /\ anomalies < MaxAnomalies
          /\ anomalies' = anomalies + 1
          /\ \/ results' = Append(results, Null)
             \/ \E u \in OtherReadings :
                   results' = Append(results, Sample(current, u))
    /\ current' = current + HourMs
    /\ hourCount' = hourCount + 1
    /\ UNCHANGED auxVars
    /\ UNCHANGED <<openWeatherApiKey, location, pc, now, sunriseHour, forecastHourly, allHourlyData,
                   uniqueHourlyData, uvData>>

\* results.filter(result => result !== null && result.uv > 0)
ValidResult(result) == result # Null /\ result.uv > 0

\* what getHistoricalUVData returns
historicalData == SelectSeq(results, ValidResult)

\* the loop has ended: Promise.all, the filter, and the push into allHourlyData
HistoricalDone ==
    /\ pc = "historical"
    /\ ~(current <= HourStart(now) /\ hourCount < maxHours)
    /\ allHourlyData' = historicalData
    /\ pc' = "forecast"
    /\ UNCHANGED auxVars
    /\ UNCHANGED <<openWeatherApiKey, location, now, sunriseHour, current, hourCount, results, anomalies,
                   forecastHourly, uniqueHourlyData, uvData>>

\* the forecast request fails: the catch block
ForecastFailed ==
    /\ pc = "forecast"
    /\ uvData' = getFallbackUVData(now)
    /\ pc' = "done"
    /\ UNCHANGED auxVars
    /\ UNCHANGED <<openWeatherApiKey, location, now, sunriseHour, current, hourCount, results, anomalies,
                   forecastHourly, allHourlyData, uniqueHourlyData>>

\* the window taken closed at tomorrow 06:00
InWindow_ClosedEnd(hour, t) ==
    /\ hour.time >= HourStart(t)
    /\ hour.time <= DayStart(t) + DayMs + CutoffHours * HourMs

\* the filter on the forecast entries
InWindow(hour, t) ==
    /\ hour.time >= HourStart(t)
    /\ hour.time < DayStart(t) + DayMs + CutoffHours * HourMs

ForecastFilter(entries, t) ==
    SelectSeq(SubSeq(entries, 1, IF Len(entries) < ForecastSlice
                                 THEN Len(entries) ELSE ForecastSlice),
              LAMBDA hour : InWindow(hour, t))

\* the entries a forecast response can carry
ForecastEntries(t, z) ==
    {Sample(HourStart(t) + z + k * HourMs, u) :
        k \in ForecastOffsets, u \in ForecastReadings}

\* what getUVForecast does with the hourly entries of the forecast response:
\* filter, merge, sort, de-duplicate, group
ProcessForecast(hourly) ==
    /\ forecastHourly' = ForecastFilter(hourly, now)
    /\ allHourlyData' = SortByTime(allHourlyData \o forecastHourly')
    /\ uniqueHourlyData' = RemoveDuplicates(allHourlyData', {}, <<>>)
    /\ uvData' = [source  |-> "api",
                  hourly  |-> uniqueHourlyData',
                  grouped |-> groupUVDataByIndex(uniqueHourlyData')]

\* the forecast response arrives
ForecastResponse ==
    /\ pc = "forecast"
    /\ \E z \in ZoneMinutes :
       \E hourly \in SeqsUpTo(ForecastEntries(now, z), MaxForecast) :
          ProcessForecast(hourly)
    /\ pc' = "done"
    /\ UNCHANGED auxVars
    /\ UNCHANGED <<openWeatherApiKey, location, now, sunriseHour, current, hourCount, results, anomalies>>

Next ==
    \/ GetUVForecastNoKey
    \/ GetUVForecastError
    \/ GetUVForecastStart
    \/ HistoricalRequest
    \/ HistoricalDone
    \/ ForecastFailed
    \/ ForecastResponse

Spec == Init /\ [][Next]_vars

(***************************************************************************)
(* Properties of the merged timeline (getUVForecast).                      *)
(***************************************************************************)
\* the call has resolved with data built from the API responses
Merged == pc = "done" /\ uvData.source = "api"

\* the historical and forecast samples, concatenated as the merge receives them
MergeInput == historicalData \o forecastHourly

SharedKey(s) == \E i, j \in 1..Len(s) : i < j /\ hourKey(s[i]) = hourKey(s[j])

Ascending(s) == \A i \in 1..(Len(s) - 1) : s[i + 1].time >= s[i].time

\* C1: in the merged timeline no two elements share a (day-of-month, hour)
\* key, and the timeline is never longer than historical plus forecast input.
C1_UniqueKeys ==
    Merged =>
        /\ ~SharedKey(uniqueHourlyData)
        /\ Len(uniqueHourlyData) <= Len(historicalData) + Len(forecastHourly)

\* a merge whose input had two samples for one key, one of which was dropped
C1_Witness ==
    /\ Merged
    /\ SharedKey(MergeInput)
    /\ Len(uniqueHourlyData) < Len(MergeInput)
    /\ Len(uniqueHourlyData) >= 2

\* C3: when the concatenated input has no duplicate key, the merged timeline
\* has as many elements as the input and is in ascending time order.
C3_NoDuplicatesKeepsAll ==
    (Merged /\ ~SharedKey(MergeInput)) =>
        /\ Len(uniqueHourlyData) = Len(MergeInput)
        /\ Ascending(uniqueHourlyData)

\* a duplicate-free input that was not in time order before the sort
C3_Witness ==
    /\ Merged
    /\ ~SharedKey(MergeInput)
    /\ ~Ascending(MergeInput)
    /\ Len(uniqueHourlyData) >= 3

ForecastHasKey(k) ==
    \E j \in 1..Len(forecastHourly) : hourKey(forecastHourly[j]) = k

\* the elements of the merged timeline with key k
Kept(k) == SelectSeq(uniqueHourlyData, LAMBDA x : hourKey(x) = k)

\* C2 as stated: for every historical reading, a reading of 0 included, that
\* shares its key with a forecast sample, the merged timeline has exactly one
\* sample for the key and it is the historical one.
C2_HistoricalAlwaysWins ==
    Merged =>
        \A i \in 1..Len(results) :
            (results[i] # Null /\ ForecastHasKey(hourKey(results[i]))) =>
                Kept(hourKey(results[i])) = <<results[i]>>

\* C2 as amended: the merged timeline has exactly one sample for the key; it
\* is the historical one when the historical reading is above 0, and a
\* forecast one when the historical reading is 0 (dropped before the merge).
C2_PositiveHistoricalWins ==
    Merged =>
        \A i \in 1..Len(results) :
            (results[i] # Null /\ ForecastHasKey(hourKey(results[i]))) =>
                /\ Len(Kept(hourKey(results[i]))) = 1
                /\ IF results[i].uv > 0
                   THEN Kept(hourKey(results[i]))[1] = results[i]
                   ELSE \E j \in 1..Len(forecastHourly) :
                           Kept(hourKey(results[i]))[1] = forecastHourly[j]

\* a positive historical reading and a different forecast reading at one time
C2_Witness ==
    /\ Merged
    /\ \E i \in 1..Len(results), j \in 1..Len(forecastHourly) :
          /\ results[i] # Null
          /\ results[i].uv > 0
          /\ forecastHourly[j].time = results[i].time
          /\ forecastHourly[j].uv # results[i].uv

\* C4 as stated: consecutive elements of the merged timeline are exactly one
\* hour apart.
C4_GapFree ==
    Merged =>
        \A i \in 1..(Len(uniqueHourlyData) - 1) :
            uniqueHourlyData[i + 1].time = uniqueHourlyData[i].time + HourMs

\* C4 as amended: every element of the merged timeline lies in a later clock
\* hour than the element before it (gaps are possible).
C4_LaterClockHours ==
    Merged =>
        \A i \in 1..(Len(uniqueHourlyData) - 1) :
            uniqueHourlyData[i + 1].time \div HourMs
                > uniqueHourlyData[i].time \div HourMs

\* a merged timeline with a missing hour between two of its elements
C4_Witness ==
    /\ Merged
    /\ Len(uniqueHourlyData) >= 3
    /\ \E i \in 1..(Len(uniqueHourlyData) - 1) :
          uniqueHourlyData[i + 1].time > uniqueHourlyData[i].time + HourMs

(***************************************************************************)
(* Properties of the groups (groupUVDataByIndex), for both callers.        *)
(***************************************************************************)
\* the timeline the caller passed to groupUVDataByIndex
GroupInput ==
    IF uvData.source = "api" THEN uvData.hourly
    ELSE SelectSeq(uvData.hourly, PositiveUV)

Last(s) == s[Len(s)]

MinutesPerDay == 24 * 60

\* g2's first sample is the hour right after g1's last sample
Follows(g1, g2) == g2.hours[1].time = Last(g1.hours).time + HourMs

\* C5 as stated: consecutive groups of which the second starts the hour after
\* the first ends have g1.endHour = g2.startHour, at midnight too.
C5_GroupsAbut ==
    pc = "done" =>
        \A i \in 1..(Len(uvData.grouped) - 1) :
            Follows(uvData.grouped[i], uvData.grouped[i + 1]) =>
                uvData.grouped[i].endHour = uvData.grouped[i + 1].startHour

\* C5 as amended: g1.endHour = g2.startHour unless g2 starts in hour 0 of the
\* day, where g1.endHour = g2.startHour + 24 (equal modulo 24).
C5_GroupsAbutModulo24 ==
    pc = "done" =>
        \A i \in 1..(Len(uvData.grouped) - 1) :
            Follows(uvData.grouped[i], uvData.grouped[i + 1]) =>
                IF getHours(uvData.grouped[i + 1].startTime) = 0
                THEN uvData.grouped[i].endHour
                        = uvData.grouped[i + 1].startHour + MinutesPerDay
                ELSE uvData.grouped[i].endHour = uvData.grouped[i + 1].startHour

\* a group of several hours followed at once by a group that starts in hour 0
C5_Witness ==
    /\ pc = "done"
    /\ \E i \in 1..(Len(uvData.grouped) - 1) :
          /\ Follows(uvData.grouped[i], uvData.grouped[i + 1])
          /\ Len(uvData.grouped[i].hours) >= 2
          /\ getHours(uvData.grouped[i + 1].startTime) = 0

\* uv is nearer to 0 than to 0.5 or -0.5 (ties go up): -0.25 <= uv < 0.25
RoundsToZero(uv) == uv >= -5 /\ uv < 5

\* C6: every returned group has a uvIndex that is a multiple of 0.5 and above
\* 0, and no member of a returned group has a UV that rounds to 0.
C6_PositiveHalfSteps ==
    pc = "done" =>
        \A i \in 1..Len(uvData.grouped) :
            /\ uvData.grouped[i].uvIndex % 10 = 0
            /\ uvData.grouped[i].uvIndex > 0
            /\ \A j \in 1..Len(uvData.grouped[i].hours) :
                  ~RoundsToZero(uvData.grouped[i].hours[j].uv)

\* the input had a sample that rounds to 0 and a sample off the 0.5 grid that
\* ended up in a group
C6_Witness ==
    /\ pc = "done"
    /\ \E k \in 1..Len(GroupInput) : RoundsToZero(GroupInput[k].uv)
    /\ \E i \in 1..Len(uvData.grouped) :
          \E j \in 1..Len(uvData.grouped[i].hours) :
              uvData.grouped[i].hours[j].uv % 10 # 0

\* C7 as stated: in every returned group each member is exactly one hour after
\* the member before it.
C7_ConsecutiveHours ==
    pc = "done" =>
        \A i \in 1..Len(uvData.grouped) :
            \A j \in 1..(Len(uvData.grouped[i].hours) - 1) :
                uvData.grouped[i].hours[j + 1].time
                    = uvData.grouped[i].hours[j].time + HourMs

\* a and b round to the same multiple of 0.5 (ties go up)
SameRounding(a, b) ==
    \E n \in -2..40 : /\ a >= 10 * n - 5 /\ a < 10 * n + 5
                      /\ b >= 10 * n - 5 /\ b < 10 * n + 5

\* C8: two samples adjacent in the input that round to the same positive value
\* are adjacent members of one group, and an input whose samples all round to
\* one positive value gives exactly one group, from the first sample's hour to
\* one hour past the last.
C8_MaximalGroups ==
    pc = "done" =>
        /\ \A k \in 1..(Len(GroupInput) - 1) :
              ( /\ SameRounding(GroupInput[k].uv, GroupInput[k + 1].uv)
                /\ ~RoundsToZero(GroupInput[k].uv) ) =>
                  \E i \in 1..Len(uvData.grouped) :
                      \E j \in 1..(Len(uvData.grouped[i].hours) - 1) :
                          /\ uvData.grouped[i].hours[j] = GroupInput[k]
                          /\ uvData.grouped[i].hours[j + 1] = GroupInput[k + 1]
        /\ ( /\ GroupInput # <<>>
             /\ \A k \in 1..Len(GroupInput) :
                   /\ SameRounding(GroupInput[1].uv, GroupInput[k].uv)
                   /\ ~RoundsToZero(GroupInput[k].uv) ) =>
               /\ Len(uvData.grouped) = 1
               /\ uvData.grouped[1].startTime = GroupInput[1].time
               /\ uvData.grouped[1].endTime = Last(GroupInput).time + HourMs
               /\ uvData.grouped[1].startHour
                     = getHours(GroupInput[1].time) * 60 + getMinutes(GroupInput[1].time)
               /\ uvData.grouped[1].endHour
                     = (getHours(Last(GroupInput).time) + 1) * 60
                        + getMinutes(Last(GroupInput).time)

\* three or more samples with different readings that all round to one value
C8_Witness ==
    /\ pc = "done"
    /\ Len(GroupInput) >= 3
    /\ \A k \in 1..Len(GroupInput) :
          /\ SameRounding(GroupInput[1].uv, GroupInput[k].uv)
          /\ ~RoundsToZero(GroupInput[k].uv)
    /\ \E k \in 1..Len(GroupInput) : GroupInput[k].uv # GroupInput[1].uv
    /\ Len(uvData.grouped) = 1

\* the group has members on two calendar days
SpansMidnight(g) == DayStart(Last(g.hours).time) > DayStart(g.hours[1].time)

\* C9 as stated: startTime is the first member's time, endTime the last
\* member's time plus one hour, endHour - startHour is the duration in hours,
\* so endHour > startHour, endHour > 24 for a group that spans midnight, and
\* endHour = startHour + 1 for a group of one sample.
C9_HourSpanIsDuration ==
    pc = "done" =>
        \A i \in 1..Len(uvData.grouped) :
            /\ uvData.grouped[i].startTime = uvData.grouped[i].hours[1].time
            /\ uvData.grouped[i].endTime
                  = Last(uvData.grouped[i].hours).time + HourMs
            /\ uvData.grouped[i].endHour - uvData.grouped[i].startHour
                  = uvData.grouped[i].endTime - uvData.grouped[i].startTime
            /\ uvData.grouped[i].endHour > uvData.grouped[i].startHour
            /\ SpansMidnight(uvData.grouped[i]) =>
                  uvData.grouped[i].endHour > MinutesPerDay
            /\ Len(uvData.grouped[i].hours) = 1 =>
                  uvData.grouped[i].endHour = uvData.grouped[i].startHour + 60

\* the member lists of the groups, concatenated
RECURSIVE Members(_)
Members(groups) ==
    IF groups = <<>> THEN <<>>
    ELSE Head(groups).hours \o Members(Tail(groups))

\* uv rounds to a value above 0: uv >= 0.25
RoundsPositive(h) == h.uv >= 5

\* C10: the member lists of the returned groups, concatenated in order, are
\* the input timeline without the samples that round to 0 or less, and an
\* empty input gives no group.
C10_Partition ==
    pc = "done" =>
        /\ Members(uvData.grouped) = SelectSeq(GroupInput, RoundsPositive)
        /\ GroupInput = <<>> => uvData.grouped = <<>>

\* several groups, with a sample between them that was dropped
C10_Witness ==
    /\ pc = "done"
    /\ Len(uvData.grouped) >= 2
    /\ \E k \in 2..(Len(GroupInput) - 1) :
          /\ ~RoundsPositive(GroupInput[k])
          /\ RoundsPositive(GroupInput[k - 1])
          /\ RoundsPositive(GroupInput[k + 1])

(***************************************************************************)
(* getFallbackUVData called on its own (SunMoonApp.getFallbackData), at    *)
(* any time of the day.                                                    *)
(***************************************************************************)
\* instants at which the fallback is built: every ten minutes of day 0
FallbackTimes == {h * HourMs + m : h \in 0..23, m \in {0, 10, 20, 30, 40, 50}}

GetFallbackUVData ==
    /\ pc = "idle"
    /\ \E t \in FallbackTimes :
          /\ now' = t
          /\ uvData' = getFallbackUVData(t)
    /\ pc' = "done"
    /\ UNCHANGED auxVars
    /\ UNCHANGED <<openWeatherApiKey, location, sunriseHour, current,
                   hourCount, results, anomalies, forecastHourly,
                   allHourlyData, uniqueHourlyData>>

NextFallback == GetFallbackUVData

SpecFallback == Init /\ [][NextFallback]_vars

\* C11: the fallback has exactly 24 samples, one per hour from the starting
\* time on, each with uv = max(0, 8 - 1.2 * |12 - hourOfDay|) when
\* 6 <= hourOfDay <= 18 and 0 otherwise, and at least one sample is not 0.
C11_FallbackShape ==
    (pc = "done" /\ uvData.source = "fallback") =>
        /\ Len(uvData.hourly) = 24
        /\ \A i \in 1..Len(uvData.hourly) :
              /\ uvData.hourly[i].time = now + (i - 1) * 60
              /\ uvData.hourly[i].hour = (uvData.hourly[i].time \div 60) % 24
              /\ uvData.hourly[i].uv =
                    IF uvData.hourly[i].hour >= 6 /\ uvData.hourly[i].hour <= 18
                    THEN IF 160 - 24 * Abs(12 - uvData.hourly[i].hour) > 0
                         THEN 160 - 24 * Abs(12 - uvData.hourly[i].hour)
                         ELSE 0
                    ELSE 0
        /\ \E i \in 1..Len(uvData.hourly) : uvData.hourly[i].uv # 0

\* a fallback built at night, off the full hour: it starts with a zero sample,
\* runs past midnight and reaches 18:00 of the next day
C11_Witness ==
    /\ pc = "done"
    /\ uvData.source = "fallback"
    /\ getHours(now) = 22
    /\ getMinutes(now) # 0
    /\ uvData.hourly[1].uv = 0
    /\ \E i \in 1..Len(uvData.hourly) :
          uvData.hourly[i].hour = 18 /\ uvData.hourly[i].uv = 16

\* C12 as stated: whenever the call ends without any hourly sample from the
\* API, the data returned is the fallback and its hourly sequence is not empty.
C12_FallbackWhenNoSamples ==
    (pc = "done" /\ uniqueHourlyData = <<>>) =>
        /\ uvData.source = "fallback"
        /\ uvData.hourly # <<>>

\* C19: getHistoricalUVData issues at most 12 requests, one per hour from
\* startTime on, and returns at most 12 samples; once 12 requests are out the
\* loop is over although the current hour is not reached.
C19_AtMostTwelveRequests ==
    /\ hourCount <= 12
    /\ Len(results) = hourCount
    /\ Len(historicalData) <= 12
    /\ pc \in {"historical", "forecast", "done"} =>
          \A i \in 1..Len(results) :
              results[i] # Null =>
                  results[i].time
                      = DayStart(now) + sunriseHour * 60 + (i - 1) * 60
    /\ (pc = "historical" /\ hourCount = 12) => ~ENABLED HistoricalRequest

\* the 12th request is out and the current hour is still ahead
C19_Witness ==
    /\ pc = "historical"
    /\ hourCount = 12
    /\ current <= HourStart(now)

(***************************************************************************)
(* The forecast step of getUVForecast on a response of up to MaxEntries    *)
(* consecutive hourly entries, when no historical request is made.         *)
(***************************************************************************)
MaxEntries == 54

\* how many hours before the current hour start the response begins
EntryOffsets == {-30, -1, 0, 1}

\* n hourly entries from the instant first on
HourlySeries(first, n) == [i \in 1..n |-> Sample(first + (i - 1) * HourMs, 60)]

\* getUVForecast has a key and a location, the hour is not after the sunrise
\* hour, and the forecast request is out
InitFilter ==
    /\ openWeatherApiKey = "key"
    /\ location = "place"
    /\ pc = "forecast"
    /\ now \in NowTimes
    /\ sunriseHour = 23
    /\ current = 0
    /\ hourCount = 0
    /\ results = <<>>
    /\ anomalies = 0
    /\ forecastHourly = <<>>
    /\ allHourlyData = <<>>
    /\ uniqueHourlyData = <<>>
    /\ uvData = NoData
    /\ \E k \in EntryOffsets, z \in ZoneMinutes, n \in 0..MaxEntries :
          forecastData = HourlySeries(HourStart(now) + k * HourMs + z, n)
    /\ equinoxSolsticeData = null
    /\ NoCall
    /\ NoOther

ForecastResponseData ==
    /\ pc = "forecast"
    /\ ProcessForecast(forecastData)
    /\ pc' = "done"
    /\ UNCHANGED <<openWeatherApiKey, location, now, sunriseHour, current,
                   hourCount, results, anomalies, forecastData, dayVars,
                   otherVars>>

NextFilter == ForecastResponseData

SpecFilter == InitFilter /\ [][NextFilter]_vars

\* the entry is among the filtered forecast samples
KeptEntry(e) == \E j \in 1..Len(forecastHourly) : forecastHourly[j] = e

\* C20: a forecast entry is kept if and only if it is one of the first 48
\* entries of the response and its time t satisfies
\* currentHourStart <= t < tomorrowStart + 6 hours.
C20_HalfOpenWindow ==
    (pc = "done" /\ uvData.source = "api") =>
        \A i \in 1..Len(forecastData) :
            KeptEntry(forecastData[i]) <=>
                /\ i <= 48
                /\ forecastData[i].time >= now - (now % 60)
                /\ forecastData[i].time < ((now \div 1440) + 1) * 1440 + 6 * 60

\* a response with an entry exactly at the current hour start (kept), one
\* exactly at tomorrow 06:00 among the first 48 (dropped), and one inside the
\* window beyond the 48th (dropped)
C20_Witness ==
    /\ pc = "done"
    /\ uvData.source = "api"
    /\ \E i \in 1..Len(forecastData) :
          /\ forecastData[i].time = HourStart(now)
          /\ KeptEntry(forecastData[i])
    /\ \/ \E i \in 1..Len(forecastData) :
             /\ i <= ForecastSlice
             /\ forecastData[i].time = DayStart(now) + DayMs + 360
             /\ ~KeptEntry(forecastData[i])
       \/ \E i \in 1..Len(forecastData) :
             /\ i > ForecastSlice
             /\ InWindow(forecastData[i], now)
             /\ ~KeptEntry(forecastData[i])

(***************************************************************************)
(* AstronomicalCalculations (calculations.js).  A date is the number of    *)
(* minutes since 2024-01-01 00:00; local time is taken to be UTC.          *)
(***************************************************************************)
Years == 2024..2029

isLeapYear(y) == y % 4 = 0

\* new Date(y, 0, 1)
YearStart(y) == ((y - 2024) * 365 + ((y - 2021) \div 4)) * DayMs

getFullYear(t) == CHOOSE y \in Years : YearStart(y) <= t /\ t < YearStart(y + 1)

\* days of the year before the first of the month, months counted from 0
DaysBeforeMonth(y, month) ==
    <<0, 31, 59, 90, 120, 151, 181, 212, 243, 273, 304, 334>>[month + 1]
        + (IF isLeapYear(y) /\ month >= 2 THEN 1 ELSE 0)

\* new Date(y, month, day, hours, minutes)
NewDate(y, month, day, hours, minutes) ==
    YearStart(y) + (DaysBeforeMonth(y, month) + day - 1) * DayMs
        + hours * HourMs + minutes

getDayOfYear(d) ==
    (d - NewDate(getFullYear(d), 0, 0, 0, 0)) \div DayMs

\* Math.ceil(a / b) for b > 0
CeilDiv(a, b) == -((-a) \div b)

(***************************************************************************)
(* JavaScript numbers that can be NaN.                                     *)
(***************************************************************************)
Num(n) == [nan |-> FALSE, value |-> n]
NaN == [nan |-> TRUE, value |-> 0]

\* a - b, Math.abs(a) and a < b
Minus(a, b) == IF a.nan \/ b.nan THEN NaN ELSE Num(a.value - b.value)
MathAbs(a) == IF a.nan THEN NaN ELSE Num(Abs(a.value))
LessThan(a, b) == ~a.nan /\ ~b.nan /\ a.value < b.value

(***************************************************************************)
(* estimateDayLength.  Latitudes are in ten-thousandths of a degree; the   *)
(* tangents are fixed-point values of the expressions of the source.       *)
(***************************************************************************)
\* a default location on the equator
DEFAULT_LOCATION_Equator == [lat |-> 0]

DEFAULT_LOCATION == [lat |-> 407128]

Latitudes == {0, 407128, 700000, 899000}

TanScale == 10000
LatScale == 100

\* Math.tan(declinationRad) * TanScale, by day of year 1..366, with
\* declination = 23.45 * sin((360 / 365) * (dayOfYear - 81) * pi / 180)
TanDeclination ==
    <<
      -4247, -4230, -4212, -4193, -4172, -4150, -4127, -4102, -4076, -4048, -4020, -3990,
      -3959, -3926, -3893, -3858, -3822, -3785, -3747, -3707, -3667, -3626, -3583, -3539,
      -3495, -3449, -3403, -3355, -3307, -3257, -3207, -3156, -3104, -3051, -2998, -2944,
      -2889, -2833, -2776, -2719, -2661, -2602, -2543, -2483, -2423, -2362, -2300, -2238,
      -2176, -2112, -2049, -1985, -1920, -1855, -1790, -1724, -1658, -1592, -1525, -1458,
      -1390, -1323, -1255, -1186, -1118, -1049, -980, -911, -841, -772, -702, -632,
      -562, -492, -422, -352, -282, -211, -141, -70, 0, 70, 141, 211,
      282, 352, 422, 492, 562, 632, 702, 772, 841, 911, 980, 1049,
      1118, 1186, 1255, 1323, 1390, 1458, 1525, 1592, 1658, 1724, 1790, 1855,
      1920, 1985, 2049, 2112, 2176, 2238, 2300, 2362, 2423, 2483, 2543, 2602,
      2661, 2719, 2776, 2833, 2889, 2944, 2998, 3051, 3104, 3156, 3207, 3257,
      3307, 3355, 3403, 3449, 3495, 3539, 3583, 3626, 3667, 3707, 3747, 3785,
      3822, 3858, 3893, 3926, 3959, 3990, 4020, 4048, 4076, 4102, 4127, 4150,
      4172, 4193, 4212, 4230, 4247, 4262, 4276, 4289, 4300, 4310, 4318, 4325,
      4330, 4334, 4337, 4338, 4337, 4336, 4332, 4328, 4322, 4314, 4305, 4295,
      4283, 4270, 4255, 4239, 4222, 4203, 4183, 4161, 4138, 4114, 4089, 4062,
      4034, 4005, 3974, 3943, 3910, 3875, 3840, 3804, 3766, 3727, 3687, 3646,
      3604, 3561, 3517, 3472, 3426, 3379, 3331, 3282, 3232, 3182, 3130, 3078,
      3025, 2971, 2916, 2861, 2804, 2748, 2690, 2632, 2573, 2513, 2453, 2392,
      2331, 2269, 2207, 2144, 2081, 2017, 1953, 1888, 1823, 1757, 1691, 1625,
      1558, 1491, 1424, 1356, 1289, 1220, 1152, 1083, 1014, 945, 876, 807,
      737, 667, 597, 527, 457, 387, 317, 246, 176, 106, 35, -35,
      -106, -176, -246, -317, -387, -457, -527, -597, -667, -737, -807, -876,
      -945, -1014, -1083, -1152, -1220, -1289, -1356, -1424, -1491, -1558, -1625, -1691,
      -1757, -1823, -1888, -1953, -2017, -2081, -2144, -2207, -2269, -2331, -2392, -2453,
      -2513, -2573, -2632, -2690, -2748, -2804, -2861, -2916, -2971, -3025, -3078, -3130,
      -3182, -3232, -3282, -3331, -3379, -3426, -3472, -3517, -3561, -3604, -3646, -3687,
      -3727, -3766, -3804, -3840, -3875, -3910, -3943, -3974, -4005, -4034, -4062, -4089,
      -4114, -4138, -4161, -4183, -4203, -4222, -4239, -4255, -4270, -4283, -4295, -4305,
      -4314, -4322, -4328, -4332, -4336, -4337, -4338, -4337, -4334, -4330, -4325, -4318,
      -4310, -4300, -4289, -4276, -4262, -4247
    >>

\* Math.tan(lat) * LatScale
TanLatitude(lat) ==
    CASE lat = 0      -> 0
      [] lat = 407128 -> 86
      [] lat = 700000 -> 275
      [] lat = 899000 -> 57296

\* -Math.tan(lat) * Math.tan(declinationRad), times TanScale * LatScale
AcosArgument(lat, dayOfYear) == -(TanLatitude(lat) * TanDeclination[dayOfYear])

\* Math.round(2 * (Math.acos(x) * 180 / pi) / 15 * 60) at latitude 40.7128,
\* by day of year
Minutes40 ==
    <<
      549, 549, 550, 551, 552, 553, 554, 555, 556, 557, 558, 559,
      561, 562, 563, 565, 566, 568, 570, 571, 573, 575, 576, 578,
      580, 582, 584, 586, 588, 590, 592, 594, 596, 598, 600, 603,
      605, 607, 609, 612, 614, 616, 619, 621, 624, 626, 629, 631,
      634, 636, 639, 641, 644, 647, 649, 652, 654, 657, 660, 662,
      665, 668, 670, 673, 676, 679, 681, 684, 687, 690, 692, 695,
      698, 701, 703, 706, 709, 712, 714, 717, 720, 723, 726, 728,
      731, 734, 737, 739, 742, 745, 748, 750, 753, 756, 759, 761,
      764, 767, 770, 772, 775, 778, 780, 783, 786, 788, 791, 793,
      796, 799, 801, 804, 806, 809, 811, 814, 816, 819, 821, 824,
      826, 828, 831, 833, 835, 837, 840, 842, 844, 846, 848, 850,
      852, 854, 856, 858, 860, 862, 864, 865, 867, 869, 870, 872,
      874, 875, 877, 878, 879, 881, 882, 883, 884, 885, 886, 887,
      888, 889, 890, 891, 891, 892, 893, 893, 894, 894, 894, 895,
      895, 895, 895, 895, 895, 895, 895, 895, 895, 894, 894, 894,
      893, 892, 892, 891, 890, 890, 889, 888, 887, 886, 885, 884,
      883, 881, 880, 879, 877, 876, 874, 873, 871, 870, 868, 866,
      865, 863, 861, 859, 857, 855, 853, 851, 849, 847, 845, 843,
      841, 838, 836, 834, 832, 829, 827, 825, 822, 820, 817, 815,
      813, 810, 808, 805, 803, 800, 797, 795, 792, 790, 787, 784,
      782, 779, 776, 774, 771, 768, 766, 763, 760, 757, 755, 752,
      749, 746, 744, 741, 738, 735, 732, 730, 727, 724, 721, 719,
      716, 713, 710, 708, 705, 702, 699, 696, 694, 691, 688, 685,
      683, 680, 677, 674, 672, 669, 666, 664, 661, 658, 656, 653,
      650, 648, 645, 643, 640, 637, 635, 632, 630, 627, 625, 623,
      620, 618, 615, 613, 611, 608, 606, 604, 602, 599, 597, 595,
      593, 591, 589, 587, 585, 583, 581, 579, 577, 575, 574, 572,
      570, 569, 567, 566, 564, 563, 561, 560, 559, 557, 556, 555,
      554, 553, 552, 551, 550, 550, 549, 548, 548, 547, 546, 546,
      546, 545, 545, 545, 545, 545, 545, 545, 545, 545, 545, 546,
      546, 546, 547, 547, 548, 549
    >>

\* the same at latitude 70; -1 marks the days whose argument is outside
\* [-1, 1]
Minutes70 ==
    <<
      -1, -1, -1, -1, -1, -1, -1, -1, -1, -1, -1, -1,
      -1, -1, -1, -1, -1, -1, -1, -1, -1, 40, 81, 108,
      130, 149, 166, 182, 198, 212, 226, 239, 252, 264, 276, 288,
      300, 311, 322, 333, 344, 355, 365, 376, 386, 396, 406, 416,
      426, 436, 446, 456, 465, 475, 484, 494, 503, 513, 522, 531,
      540, 550, 559, 568, 577, 586, 595, 604, 613, 622, 631, 640,
      649, 658, 667, 676, 684, 693, 702, 711, 720, 729, 738, 747,
      756, 764, 773, 782, 791, 800, 809, 818, 827, 836, 845, 854,
      863, 872, 881, 890, 900, 909, 918, 927, 937, 946, 956, 965,
      975, 984, 994, 1004, 1014, 1024, 1034, 1044, 1054, 1064, 1075, 1085,
      1096, 1107, 1118, 1129, 1140, 1152, 1164, 1176, 1188, 1201, 1214, 1228,
      1242, 1258, 1274, 1291, 1310, 1332, 1359, 1400, -1, -1, -1, -1,
      -1, -1, -1, -1, -1, -1, -1, -1, -1, -1, -1, -1,
      -1, -1, -1, -1, -1, -1, -1, -1, -1, -1, -1, -1,
      -1, -1, -1, -1, -1, -1, -1, -1, -1, -1, -1, -1,
      -1, -1, -1, -1, -1, -1, -1, -1, -1, -1, -1, -1,
      -1, -1, -1, -1, -1, -1, -1, -1, -1, -1, -1, -1,
      1376, 1345, 1321, 1300, 1282, 1265, 1250, 1235, 1221, 1208, 1195, 1182,
      1170, 1158, 1146, 1134, 1123, 1112, 1101, 1090, 1080, 1069, 1059, 1049,
      1039, 1029, 1019, 1009, 999, 989, 980, 970, 960, 951, 942, 932,
      923, 914, 904, 895, 886, 877, 868, 859, 849, 840, 831, 822,
      813, 805, 796, 787, 778, 769, 760, 751, 742, 733, 724, 716,
      707, 698, 689, 680, 671, 662, 653, 644, 635, 627, 618, 609,
      600, 591, 581, 572, 563, 554, 545, 536, 526, 517, 508, 498,
      489, 480, 470, 460, 451, 441, 431, 421, 411, 401, 391, 381,
      371, 360, 350, 339, 328, 317, 306, 294, 282, 270, 258, 245,
      232, 219, 205, 190, 175, 158, 140, 119, 95, 64, -1, -1,
      -1, -1, -1, -1, -1, -1, -1, -1, -1, -1, -1, -1,
      -1, -1, -1, -1, -1, -1, -1, -1, -1, -1, -1, -1,
      -1, -1, -1, -1, -1, -1, -1, -1, -1, -1, -1, -1,
      -1, -1, -1, -1, -1, -1
    >>

\* Math.round(dayLengthHours * 60) for an argument inside [-1, 1]
RoundedMinutes(lat, dayOfYear) ==
    IF AcosArgument(lat, dayOfYear) = 0 THEN 720
    ELSE CASE lat = 407128 -> Minutes40[dayOfYear]
           [] lat = 700000 -> Minutes70[dayOfYear]

\* !location || typeof location.lat !== 'number'
MissingLocation(loc) == loc = null \/ "lat" \notin DOMAIN loc

\* estimateDayLength with a latitude of 0 taken for a missing one
estimateDayLength_FalsyLatitude(d, loc) ==
    LET l == IF MissingLocation(loc) \/ loc.lat = 0 THEN DEFAULT_LOCATION
             ELSE loc
        dayOfYear == getDayOfYear(d)
        totalMinutes ==
            IF Abs(AcosArgument(l.lat, dayOfYear)) > TanScale * LatScale
            THEN NaN
            ELSE Num(RoundedMinutes(l.lat, dayOfYear))
    IN  [hours        |-> IF totalMinutes.nan THEN NaN
                          ELSE Num(totalMinutes.value \div 60),
         minutes      |-> IF totalMinutes.nan THEN NaN
                          ELSE Num(totalMinutes.value % 60),
         totalMinutes |-> totalMinutes]

\* Math.acos of an argument outside [-1, 1] is NaN, and so is everything
\* computed from it
estimateDayLength(d, loc) ==
    LET l == IF MissingLocation(loc) THEN DEFAULT_LOCATION ELSE loc
        dayOfYear == getDayOfYear(d)
        totalMinutes ==
            IF Abs(AcosArgument(l.lat, dayOfYear)) > TanScale * LatScale
            THEN NaN
            ELSE Num(RoundedMinutes(l.lat, dayOfYear))
    IN  [hours        |-> IF totalMinutes.nan THEN NaN
                          ELSE Num(totalMinutes.value \div 60),
         minutes      |-> IF totalMinutes.nan THEN NaN
                          ELSE Num(totalMinutes.value % 60),
         totalMinutes |-> totalMinutes]

(***************************************************************************)
(* The solstice table and getNextSolstice.                                 *)
(***************************************************************************)
ASTRONOMICAL_EVENTS(year) ==
    CASE year = 2024 ->
           [springEquinox  |-> NewDate(2024, 2, 20, 3, 6),
            summerSolstice |-> NewDate(2024, 5, 20, 20, 51),
            autumnEquinox  |-> NewDate(2024, 8, 22, 12, 44),
            winterSolstice |-> NewDate(2024, 11, 21, 9, 21)]
      [] year = 2025 ->
           [springEquinox  |-> NewDate(2025, 2, 20, 9, 1),
            summerSolstice |-> NewDate(2025, 5, 21, 2, 42),
            autumnEquinox  |-> NewDate(2025, 8, 22, 18, 19),
            winterSolstice |-> NewDate(2025, 11, 21, 15, 3)]

getEquinoxSolsticeData(year) ==
    IF year \in {2024, 2025}
    THEN ASTRONOMICAL_EVENTS(year)
    ELSE [springEquinox  |-> NewDate(year, 2, 20, 12, 0),
          summerSolstice |-> NewDate(year, 5, 21, 12, 0),
          autumnEquinox  |-> NewDate(year, 8, 22, 12, 0),
          winterSolstice |-> NewDate(year, 11, 21, 12, 0)]

\* events is this.equinoxSolsticeData
getNextSolstice(events, t) ==
    IF events.summerSolstice > t
    THEN [name |-> "Summer Solstice", date |-> events.summerSolstice]
    ELSE IF events.winterSolstice > t
    THEN [name |-> "Winter Solstice", date |-> events.winterSolstice]
    ELSE [name |-> "Summer Solstice",
          date |-> NewDate(getFullYear(t) + 1, 5, 21, 0, 0)]

\* the first of the four events of this.equinoxSolsticeData after t, else
\* March 20 of the year after t's
EventList(events) ==
    <<[name |-> "Spring Equinox", date |-> events.springEquinox],
      [name |-> "Summer Solstice", date |-> events.summerSolstice],
      [name |-> "Autumn Equinox", date |-> events.autumnEquinox],
      [name |-> "Winter Solstice", date |-> events.winterSolstice]>>

WithDaysUntil(event, t) ==
    [name     |-> event.name,
     date     |-> event.date,
     daysUntil |-> CeilDiv(event.date - t, DayMs)]

getNextEquinoxOrSolstice(events, t) ==
    LET later == SelectSeq(EventList(events), LAMBDA e : e.date > t)
    IN  IF later # <<>>
        THEN WithDaysUntil(later[1], t)
        ELSE WithDaysUntil([name |-> "Spring Equinox",
                            date |-> NewDate(getFullYear(t) + 1, 2, 20, 0, 0)],
                           t)

(***************************************************************************)
(* The scan of findMatchingDayLength.                                      *)
(***************************************************************************)
SearchDays == 185

\* searchStartDate and daysUntilSearchStart
SearchStartDate(solstice) == solstice.date + DayMs

DaysUntilSearchStart(solstice, t) ==
    CeilDiv(SearchStartDate(solstice) - t, DayMs)

\* the scan counted from today instead of from the search start
DaysAhead_FromToday(base, daysAfterSolstice) == daysAfterSolstice

DaysAhead(base, daysAfterSolstice) == base + daysAfterSolstice

\* testDate: today with its day of the month moved on by daysAhead
TestDate(t, daysAhead) == t + daysAhead * DayMs

\* what the scan computes for one value of daysAfterSolstice
Candidate(t, base, k, target, loc) ==
    LET daysAhead == DaysAhead(base, k)
        testDate == TestDate(t, daysAhead)
        testDayLength == estimateDayLength(testDate, loc)
    IN  [date          |-> testDate,
         dayLength     |-> testDayLength,
         difference    |-> MathAbs(Minus(testDayLength.totalMinutes,
                                         Num(target))),
         daysFromToday |-> daysAhead]

\* difference < smallestDifference; smallestDifference is Infinity as long
\* as closestMatch is null
Closer(c, closest) ==
    IF closest = null
    THEN ~c.difference.nan
    ELSE LessThan(c.difference, closest.difference)

\* one iteration of the loop: the closest match after candidate k
ScanStep(k, closest, t, base, target, loc) ==
    IF Closer(Candidate(t, base, k, target, loc), closest)
    THEN Candidate(t, base, k, target, loc)
    ELSE closest

\* the iterations first..last of the loop, in order, from the closest match
\* so far; the range is halved, and the first half is evaluated before the
\* second is entered, to keep the evaluation shallow
RECURSIVE ScanRange(_, _, _, _, _, _, _)
RECURSIVE ScanRest(_, _, _, _, _, _, _)
ScanRange(first, last, closest, t, base, target, loc) ==
    IF first = last
    THEN ScanStep(first, closest, t, base, target, loc)
    ELSE ScanRest(((first + last) \div 2) + 1, last,
                  ScanRange(first, (first + last) \div 2, closest,
                            t, base, target, loc),
                  t, base, target, loc)

ScanRest(first, last, before, t, base, target, loc) ==
    IF before = null
    THEN ScanRange(first, last, null, t, base, target, loc)
    ELSE ScanRange(first, last, before, t, base, target, loc)

\* for (daysAfterSolstice = 1; daysAfterSolstice <= 185; daysAfterSolstice++)
Scan(closest, t, base, target, loc) ==
    ScanRange(1, SearchDays, closest, t, base, target, loc)

(***************************************************************************)
(* The calls of an AstronomicalCalculations object.  No method changes the *)
(* object, so a behaviour is the construction followed by one call.        *)
(***************************************************************************)
ConstructionYears == {2025, 2026}

\* instants at which the object is used
Todays ==
    {NewDate(2025, 2, 1, 8, 15),   NewDate(2025, 5, 21, 2, 41),
     NewDate(2025, 5, 21, 2, 42),  NewDate(2025, 8, 10, 23, 59),
     NewDate(2025, 11, 21, 15, 3), NewDate(2025, 11, 25, 10, 0),
     NewDate(2026, 0, 5, 9, 0),    NewDate(2026, 5, 21, 12, 0),
     NewDate(2026, 6, 1, 0, 0),    NewDate(2026, 11, 30, 18, 30)}

\* the year the object was constructed in
ConstructedYear == getFullYear(equinoxSolsticeData.summerSolstice)

\* the object is not used before it is constructed
UsableAt(t) == t >= YearStart(ConstructedYear)

\* the day lengths calculateDayLength hands over, and none
DayLengthInputs == {null} \cup {[totalMinutes |-> m] : m \in {0, 600, 720}}

\* a location without a latitude
NoLatitude == [lng |-> -740060]

Locations == {null, NoLatitude} \cup {[lat |-> l] : l \in Latitudes}

\* the dates picked on the time circle
SelectedDates == {NewDate(2025, 6, 4, 0, 0), NewDate(2026, 1, 14, 0, 0)}

\* date.toDateString()
toDateString(t) == t \div DayMs

\* noon of every day of 2025 and of the leap year 2028
EstimateDates ==
    {NewDate(2025, 0, d, 12, 0) : d \in 1..365}
        \cup {NewDate(2028, 0, d, 12, 0) : d \in 1..366}

\* a getUVForecast that is never called
IdleUV ==
    /\ openWeatherApiKey = "key"
    /\ location = "place"
    /\ pc = "idle"
    /\ now = 0
    /\ sunriseHour = 0
    /\ current = 0
    /\ hourCount = 0
    /\ results = <<>>
    /\ anomalies = 0
    /\ forecastHourly = <<>>
    /\ allHourlyData = <<>>
    /\ uniqueHourlyData = <<>>
    /\ uvData = NoData
    /\ forecastData = <<>>

uvVars == <<openWeatherApiKey, location, pc, now, sunriseHour, current,
            hourCount, results, anomalies, forecastHourly, allHourlyData,
            uniqueHourlyData, uvData, forecastData>>

\* the constructor has run
InitDay ==
    /\ IdleUV
    /\ \E year \in ConstructionYears :
          equinoxSolsticeData = getEquinoxSolsticeData(year)
    /\ NoCall
    /\ NoOther

FindMatchingDayLength ==
    /\ op = "none"
    /\ \E cdl \in DayLengthInputs, loc \in Locations :
          /\ currentDayLength' = cdl
          /\ userLocation' = loc
          /\ IF cdl = null \/ cdl.totalMinutes = 0
             THEN /\ today' = 0
                  /\ nextSolstice' = null
                  /\ daysUntilSearchStart' = 0
                  /\ closestMatch' = null
             ELSE \E t \in {u \in Todays : UsableAt(u)} :
                  /\ today' = t
                  /\ nextSolstice' = getNextSolstice(equinoxSolsticeData, t)
                  /\ daysUntilSearchStart'
                        = DaysUntilSearchStart(nextSolstice', t)
                  /\ closestMatch'
                        = Scan(null, t, daysUntilSearchStart',
                               cdl.totalMinutes, loc)
    /\ op' = "findMatchingDayLength"
    /\ selectedDate' = null
    /\ nextEvent' = null
    /\ date' = 0
    /\ dayLength' = null
    /\ UNCHANGED <<equinoxSolsticeData, uvVars, otherVars>>

GetNextSolstice ==
    /\ op = "none"
    /\ \E t \in {u \in Todays : UsableAt(u)} :
          /\ today' = t
          /\ nextSolstice' = getNextSolstice(equinoxSolsticeData, t)
    /\ op' = "getNextSolstice"
    /\ selectedDate' = null
    /\ nextEvent' = null
    /\ currentDayLength' = null
    /\ userLocation' = null
    /\ daysUntilSearchStart' = 0
    /\ closestMatch' = null
    /\ date' = 0
    /\ dayLength' = null
    /\ UNCHANGED <<equinoxSolsticeData, uvVars, otherVars>>

EstimateDayLength ==
    /\ op = "none"
    /\ \E d \in EstimateDates, loc \in Locations :
          /\ date' = d
          /\ userLocation' = loc
          /\ dayLength' = estimateDayLength(d, loc)
    /\ op' = "estimateDayLength"
    /\ selectedDate' = null
    /\ nextEvent' = null
    /\ today' = 0
    /\ currentDayLength' = null
    /\ nextSolstice' = null
    /\ daysUntilSearchStart' = 0
    /\ closestMatch' = null
    /\ UNCHANGED <<equinoxSolsticeData, uvVars, otherVars>>

\* handleDateChangeDebounced(selectedDate) on a day other than the selected
\* one: findMatchingDayLength(dayLength, location, selectedDate), whose
\* parameters are (currentDayLength, userLocation)
HandleDateChangeDebounced ==
    /\ op = "none"
    /\ \E cdl \in DayLengthInputs, loc \in Locations, D \in SelectedDates,
          t \in {u \in Todays : UsableAt(u)} :
          /\ toDateString(D) # toDateString(t)
          /\ selectedDate' = D
          /\ currentDayLength' = cdl
          /\ userLocation' = loc
          /\ IF cdl = null \/ cdl.totalMinutes = 0
             THEN /\ today' = 0
                  /\ nextSolstice' = null
                  /\ daysUntilSearchStart' = 0
                  /\ closestMatch' = null
             ELSE /\ today' = t
                  /\ nextSolstice' = getNextSolstice(equinoxSolsticeData, t)
                  /\ daysUntilSearchStart'
                        = DaysUntilSearchStart(nextSolstice', t)
                  /\ closestMatch'
                        = Scan(null, t, daysUntilSearchStart',
                               cdl.totalMinutes, loc)
    /\ op' = "handleDateChangeDebounced"
    /\ nextEvent' = null
    /\ date' = 0
    /\ dayLength' = null
    /\ UNCHANGED <<equinoxSolsticeData, uvVars, otherVars>>

GetNextEquinoxOrSolstice ==
    /\ op = "none"
    /\ \E t \in {u \in Todays : UsableAt(u)} :
          /\ today' = t
          /\ nextEvent' = getNextEquinoxOrSolstice(equinoxSolsticeData, t)
    /\ op' = "getNextEquinoxOrSolstice"
    /\ selectedDate' = null
    /\ currentDayLength' = null
    /\ userLocation' = null
    /\ nextSolstice' = null
    /\ daysUntilSearchStart' = 0
    /\ closestMatch' = null
    /\ date' = 0
    /\ dayLength' = null
    /\ UNCHANGED <<equinoxSolsticeData, uvVars, otherVars>>

NextDay ==
    \/ FindMatchingDayLength
    \/ GetNextSolstice
    \/ EstimateDayLength
    \/ HandleDateChangeDebounced
    \/ GetNextEquinoxOrSolstice

SpecDay == InitDay /\ [][NextDay]_vars

\* findMatchingDayLength ran its scan
Scanned == op = "findMatchingDayLength" /\ nextSolstice # null

\* the candidate of the k-th iteration of the scan of the last call
Scan_k(k) ==
    Candidate(today, daysUntilSearchStart, k, currentDayLength.totalMinutes,
              userLocation)

\* C13 as stated: findMatchingDayLength returns a match for every target day
\* length and every location.
C13_AlwaysAMatch ==
    (op = "findMatchingDayLength" /\ currentDayLength # null) =>
        closestMatch # null

\* a <= b on numbers that can be NaN
LessOrEqual(a, b) == ~a.nan /\ ~b.nan /\ a.value <= b.value

\* C14 as stated: the difference of the returned match is <= the difference
\* of every one of the 185 scanned dates, and every scanned date earlier than
\* the returned one has a strictly greater difference.
C14_ClosestEarliest ==
    (Scanned /\ closestMatch # null) =>
        \A k \in 1..185 :
            /\ LessOrEqual(closestMatch.difference, Scan_k(k).difference)
            /\ Scan_k(k).date < closestMatch.date =>
                  LessThan(closestMatch.difference, Scan_k(k).difference)

\* C15: every scanned date and the returned date are strictly after the
\* solstice getNextSolstice(today) returned; daysFromToday of the match is in
\* daysUntilSearchStart + 1 .. daysUntilSearchStart + 185 and its date is
\* today plus daysFromToday days.
C15_AfterNextSolstice ==
    Scanned =>
        /\ nextSolstice = getNextSolstice(equinoxSolsticeData, today)
        /\ \A k \in 1..185 : Scan_k(k).date > nextSolstice.date
        /\ closestMatch # null =>
              /\ closestMatch.date > nextSolstice.date
              /\ closestMatch.daysFromToday >= daysUntilSearchStart + 1
              /\ closestMatch.daysFromToday <= daysUntilSearchStart + 185
              /\ closestMatch.date
                    = today + closestMatch.daysFromToday * 1440

\* a match found after the winter solstice that is not the first scanned date
C15_Witness ==
    /\ Scanned
    /\ closestMatch # null
    /\ nextSolstice.name = "Winter Solstice"
    /\ closestMatch.daysFromToday > daysUntilSearchStart + 1

\* the solstice the claim expects for the reference date d: of the two
\* solstices of d's own year the first one after d, else June 21 of the next
ExpectedSolstice(d) ==
    LET events == getEquinoxSolsticeData(getFullYear(d))
    IN  IF events.summerSolstice > d THEN events.summerSolstice
        ELSE IF events.winterSolstice > d THEN events.winterSolstice
        ELSE NewDate(getFullYear(d) + 1, 5, 21, 0, 0)

\* C16 as stated: getNextSolstice(d) returns the next solstice of d's own
\* calendar year, or June 21 of the following year, also when d is in a
\* later year than the construction of the object.
C16_SolsticeOfOwnYear ==
    (op = "getNextSolstice" \/ Scanned) =>
        nextSolstice.date = ExpectedSolstice(today)

\* the arccosine argument of the last estimateDayLength call is outside
\* [-1, 1]
OutOfDomain ==
    LET lat == IF MissingLocation(userLocation) THEN DEFAULT_LOCATION.lat
               ELSE userLocation.lat
    IN  Abs(TanLatitude(lat) * TanDeclination[getDayOfYear(date)])
            > TanScale * LatScale

\* C17 as stated: when |tan(lat) * tan(declination)| > 1 estimateDayLength
\* returns 0 or 1440 total minutes, never NaN.
C17_ClampedPolar ==
    (op = "estimateDayLength" /\ OutOfDomain) =>
        /\ ~dayLength.totalMinutes.nan
        /\ dayLength.totalMinutes.value \in {0, 1440}

\* C18: at latitude 0 estimateDayLength returns totalMinutes within 1 minute
\* of 720, hours = 12 and minutes = 0, on every day of the year.
C18_EquatorTwelveHours ==
    (op = "estimateDayLength" /\ userLocation = [lat |-> 0]) =>
        /\ ~dayLength.totalMinutes.nan
        /\ dayLength.totalMinutes.value >= 719
        /\ dayLength.totalMinutes.value <= 721
        /\ dayLength.hours = Num(12)
        /\ dayLength.minutes = Num(0)

\* the equator on the June solstice day and on day 366 of a leap year
C18_Witness ==
    /\ op = "estimateDayLength"
    /\ userLocation = [lat |-> 0]
    /\ getDayOfYear(date) \in {172, 366}
    /\ dayLength.totalMinutes = Num(720)

\* C23 as stated: the search handleDateChangeDebounced starts for the selected
\* date D is anchored at D: the next solstice is the one getNextSolstice gives
\* for D, and the match is D plus daysFromToday days.
C23_AnchoredAtSelectedDate ==
    (op = "handleDateChangeDebounced" /\ nextSolstice # null) =>
        /\ nextSolstice = getNextSolstice(equinoxSolsticeData, selectedDate)
        /\ closestMatch # null =>
              closestMatch.date
                  = selectedDate + closestMatch.daysFromToday * DayMs

\* the equinoxes and solstices of the year of t and of the year after it
EventsFrom(t) ==
    LET dates(events) == {events.springEquinox, events.summerSolstice,
                          events.autumnEquinox, events.winterSolstice}
    IN  dates(getEquinoxSolsticeData(getFullYear(t)))
            \cup dates(getEquinoxSolsticeData(getFullYear(t) + 1))

\* C29 as stated: getNextEquinoxOrSolstice returns an event strictly after
\* now with daysUntil >= 1, and no equinox or solstice lies between now and
\* the day of the returned event, also when now is in a later year than the
\* construction of the object.
C29_FirstEventAfterNow ==
    op = "getNextEquinoxOrSolstice" =>
        /\ nextEvent.date > today
        /\ nextEvent.daysUntil >= 1
        /\ \A e \in EventsFrom(today) :
              e > today => toDateString(nextEvent.date) <= toDateString(e)

\* the arithmetic of a day length that is a number
WellFormed(dl) ==
    /\ ~dl.totalMinutes.nan /\ ~dl.hours.nan /\ ~dl.minutes.nan
    /\ dl.hours.value * 60 + dl.minutes.value = dl.totalMinutes.value
    /\ dl.minutes.value >= 0 /\ dl.minutes.value <= 59
    /\ dl.totalMinutes.value >= 0 /\ dl.totalMinutes.value <= 1440

\* C30: with no location, or a location without a numeric lat,
\* estimateDayLength returns what it returns for latitude 40.7128 and
\* findMatchingDayLength the match it finds for that latitude; whenever the
\* arccosine argument is within [-1, 1] the result has
\* hours * 60 + minutes = totalMinutes, 0 <= minutes <= 59 and
\* 0 <= totalMinutes <= 1440.
C30_MissingLocationDefault ==
    /\ (op = "estimateDayLength" /\ MissingLocation(userLocation)) =>
          dayLength = estimateDayLength(date, [lat |-> 407128])
    /\ (op = "estimateDayLength" /\ ~OutOfDomain) => WellFormed(dayLength)
    /\ (Scanned /\ MissingLocation(userLocation)) =>
          /\ closestMatch # null
          /\ closestMatch
                = Scan(null, today, daysUntilSearchStart,
                       currentDayLength.totalMinutes, [lat |-> 407128])
          /\ WellFormed(closestMatch.dayLength)

\* a location without lat on a day that is not 12 hours long at 40.7128
\* degrees
C30_Witness ==
    /\ op = "estimateDayLength"
    /\ userLocation = NoLatitude
    /\ dayLength.totalMinutes.value > 800

(***************************************************************************)
(* Cross-tab coordination of SunMoonApp.  Time advances in steps of two    *)
(* minutes and Date.now() is read at these steps; a timestamp of age k was *)
(* written k steps ago, and ages are counted no further than the first     *)
(* value at which the entry is stale or the data old.                      *)
(***************************************************************************)
TickMs == 120000
StaleMs == 120000
RecentMs == 300000

\* now - timestamp > 120000, and the first age at which that is so
Stale(e) == e.age * TickMs > StaleMs
StaleAge == (StaleMs \div TickMs) + 1

\* Date.now() - data.timestamp < 300000, and the first age at which it is not
Recent(data) == data.age * TickMs < RecentMs
OldAge == CeilDiv(RecentMs, TickMs)

\* Object.keys(activeTabs), activeTabs[t], delete activeTabs[t]
Keys(tabs) == {e.tabId : e \in tabs}
Entry(tabs, t) == CHOOSE e \in tabs : e.tabId = t
Without(tabs, t) == {e \in tabs : e.tabId # t}

\* Object.keys(activeTabs).sort()[0]
Oldest(tabs) == CHOOSE t \in Keys(tabs) : \A u \in Keys(tabs) : t <= u

\* activeTabs[t].isLeader = true
SetLeader(tabs, t) ==
    {IF e.tabId = t THEN [e EXCEPT !.isLeader = TRUE] ELSE e : e \in tabs}

Leaders(tabs) == {e.tabId : e \in {x \in tabs : x.isLeader}}

registerTab(tabs, t) ==
    Without(tabs, t)
        \cup {[tabId |-> t, age |-> 0, isLeader |-> Keys(tabs) = {}]}

unregisterTab(tabs, t) ==
    LET rest == Without(tabs, t)
    IN  IF Keys(rest) # {} THEN SetLeader(rest, Oldest(rest)) ELSE rest

\* cleanupStaleTabs that removes the stale entries and elects nobody
cleanupStaleTabs_NoElection(tabs, t) ==
    LET fresh == {e \in tabs : ~Stale(e)}
    IN  Without(fresh, t)
            \cup {[tabId |-> t, age |-> 0,
                   isLeader |-> t \in Leaders(fresh)]}

cleanupStaleTabs(tabs, t) ==
    LET fresh == {e \in tabs : ~Stale(e)}
        hasChanges == fresh # tabs
        ensured == IF hasChanges /\ Keys(fresh) # {} /\ Leaders(fresh) = {}
                   THEN SetLeader(fresh, Oldest(fresh))
                   ELSE fresh
    IN  Without(ensured, t)
            \cup {[tabId |-> t, age |-> 0,
                   isLeader |-> t \in Leaders(ensured)]}

isTabLeader(tabs, t) == t \in Leaders(tabs)

promoteToLeader(tabs, t) ==
    IF t \in Keys(tabs) THEN SetLeader(tabs, t) ELSE tabs

getRecentSharedData(data) ==
    IF data # null /\ Recent(data) THEN data ELSE null

\* handleSharedDataUpdate that applies the data of every tab
handleSharedDataUpdate_AnyTab(cur, data, t) ==
    [tabId |-> data.tabId, source |-> "shared"]

\* handleSharedDataUpdate: the new this.currentData of tab t
handleSharedDataUpdate(cur, data, t) ==
    IF data.tabId # t
    THEN [tabId |-> data.tabId, source |-> "shared"]
    ELSE cur

\* the synchronous part of loadAstronomicalData of tab t, up to its first
\* await or return, on the registry tabs
StartLoad(t, tabs) ==
    IF ~isTabLeader(tabs, t)
    THEN IF getRecentSharedData(sharedData) # null
         THEN /\ currentData' =
                    [currentData EXCEPT ![t] =
                        handleSharedDataUpdate(currentData[t], sharedData, t)]
              /\ loadPc' = [loadPc EXCEPT ![t] = "idle"]
         ELSE /\ loadPc' = [loadPc EXCEPT ![t] = "waiting"]
              /\ currentData' = currentData
    ELSE /\ loadPc' = [loadPc EXCEPT ![t] = "loading"]
         /\ currentData' = currentData

untabVars == <<uvVars, dayVars, dateVars, apiVars>>

\* a tab opens: setupCrossTabCoordination, then init calls
\* loadAstronomicalData
OpenTab ==
    /\ nextTab <= MaxTabs
    /\ activeTabs' = registerTab(activeTabs, nextTab)
    /\ alive' = alive \cup {nextTab}
    /\ StartLoad(nextTab, activeTabs')
    /\ nextTab' = nextTab + 1
    /\ UNCHANGED <<sharedData, untabVars>>

\* beforeunload
CloseTab(t) ==
    /\ t \in alive
    /\ activeTabs' = unregisterTab(activeTabs, t)
    /\ alive' = alive \ {t}
    /\ loadPc' = [loadPc EXCEPT ![t] = "idle"]
    /\ currentData' = [currentData EXCEPT ![t] = null]
    /\ UNCHANGED <<nextTab, sharedData, untabVars>>

\* the page of a tab stops without beforeunload
StopTab(t) ==
    /\ t \in alive
    /\ alive' = alive \ {t}
    /\ loadPc' = [loadPc EXCEPT ![t] = "idle"]
    /\ currentData' = [currentData EXCEPT ![t] = null]
    /\ UNCHANGED <<nextTab, activeTabs, sharedData, untabVars>>

\* the 30 second interval of a tab
CleanupStaleTabs(t) ==
    /\ t \in alive
    /\ activeTabs' = cleanupStaleTabs(activeTabs, t)
    /\ UNCHANGED <<nextTab, alive, sharedData, loadPc, currentData,
                   untabVars>>

\* two minutes pass
Older(e, cap) == [e EXCEPT !.age = IF e.age < cap THEN e.age + 1 ELSE cap]

Tick ==
    /\ activeTabs' = {Older(e, StaleAge) : e \in activeTabs}
    /\ sharedData' = IF sharedData = null THEN null
                     ELSE Older(sharedData, OldAge)
    /\ UNCHANGED <<nextTab, alive, loadPc, currentData, untabVars>>

\* loadAstronomicalData called by a timer of the tab
LoadAstronomicalData(t) ==
    /\ t \in alive
    /\ loadPc[t] = "idle"
    /\ StartLoad(t, activeTabs)
    /\ UNCHANGED <<nextTab, alive, activeTabs, sharedData, untabVars>>

\* the 2 second timeout of a tab that waits for the leader
WaitTimeout(t) ==
    /\ t \in alive
    /\ loadPc[t] = "waiting"
    /\ IF getRecentSharedData(sharedData) # null
       THEN /\ currentData' =
                  [currentData EXCEPT ![t] =
                      handleSharedDataUpdate(currentData[t], sharedData, t)]
            /\ loadPc' = [loadPc EXCEPT ![t] = "idle"]
            /\ activeTabs' = activeTabs
       ELSE /\ activeTabs' = promoteToLeader(activeTabs, t)
            /\ StartLoad(t, activeTabs')
    /\ UNCHANGED <<nextTab, alive, sharedData, untabVars>>

\* getExtendedAstronomicalData of a loading tab returns or fails
LoadDone(t) ==
    /\ t \in alive
    /\ loadPc[t] = "loading"
    /\ \/ /\ currentData' =
                [currentData EXCEPT ![t] = [tabId |-> t, source |-> "api"]]
          /\ sharedData' = [tabId |-> t, age |-> 0]
       \/ /\ currentData' =
                [currentData EXCEPT ![t] = [tabId |-> t, source |-> "fallback"]]
          /\ sharedData' = sharedData
    /\ loadPc' = [loadPc EXCEPT ![t] = "idle"]
    /\ UNCHANGED <<nextTab, alive, activeTabs, untabVars>>

\* the storage event of 'sun-moon-data' in a tab other than the writer
StorageEvent(t) ==
    /\ t \in alive
    /\ sharedData # null
    /\ sharedData.tabId # t
    /\ currentData' =
          [currentData EXCEPT ![t] =
              handleSharedDataUpdate(currentData[t], sharedData, t)]
    /\ UNCHANGED <<nextTab, alive, activeTabs, sharedData, loadPc,
                   untabVars>>

NextTabs ==
    \/ OpenTab
    \/ Tick
    \/ \E t \in TabIds : CloseTab(t)
    \/ \E t \in TabIds : StopTab(t)
    \/ \E t \in TabIds : CleanupStaleTabs(t)
    \/ \E t \in TabIds : LoadAstronomicalData(t)
    \/ \E t \in TabIds : WaitTimeout(t)
    \/ \E t \in TabIds : LoadDone(t)
    \/ \E t \in TabIds : StorageEvent(t)

\* the AstronomicalCalculations and AstronomicalAPI objects are left out
InitTabs ==
    /\ IdleUV
    /\ equinoxSolsticeData = null
    /\ NoCall
    /\ NoOther

SpecTabs == InitTabs /\ [][NextTabs]_vars

\* C21 as stated: at most one entry of the registry has isLeader = true.
C21_AtMostOneLeader == Cardinality(Leaders(activeTabs)) <= 1

\* tab t starts the request of loadAstronomicalData in this step
IssuesRequest(t) == loadPc[t] # "loading" /\ loadPc'[t] = "loading"

\* this.currentData of tab t is shared data written by tab t itself
OwnSharedData(cur, t) == cur # null /\ cur.source = "shared" /\ cur.tabId = t

\* C25: a tab starts the request of loadAstronomicalData only while its
\* registry entry has isLeader = true, and no tab ever applies shared data
\* that carries its own tabId.
C25_OnlyLeaderLoads ==
    [][\A t \in TabIds :
          /\ IssuesRequest(t) => isTabLeader(activeTabs', t)
          /\ ~OwnSharedData(currentData'[t], t)]_vars

\* a tab that is no longer leader finds its own recent shared data and keeps
\* the data of its request, while another tab shows the shared data
C25_Witness ==
    \E t \in alive :
        /\ ~isTabLeader(activeTabs, t)
        /\ getRecentSharedData(sharedData) # null
        /\ sharedData.tabId = t
        /\ loadPc[t] = "idle"
        /\ currentData[t] = [tabId |-> t, source |-> "api"]
        /\ \E u \in alive \ {t} :
               currentData[u] = [tabId |-> t, source |-> "shared"]

(***************************************************************************)
(* The registry alone, with the timers of a running tab on time: the       *)
(* 30 second interval of every running tab fires between two steps of the  *)
(* clock.  promoteToLeader is called by loadAstronomicalData; here a       *)
(* running tab may call it at any time.                                    *)
(***************************************************************************)
unregistryVars == <<sharedData, loadPc, currentData, untabVars>>

MaxRegistered == 3
RegisteredIds == 1..MaxRegistered

RegisterTab ==
    /\ nextTab <= MaxRegistered
    /\ activeTabs' = registerTab(activeTabs, nextTab)
    /\ alive' = alive \cup {nextTab}
    /\ nextTab' = nextTab + 1
    /\ UNCHANGED unregistryVars

UnregisterTab(t) ==
    /\ t \in alive
    /\ activeTabs' = unregisterTab(activeTabs, t)
    /\ alive' = alive \ {t}
    /\ UNCHANGED <<nextTab, unregistryVars>>

\* the page of a tab stops without beforeunload
StopUpdating(t) ==
    /\ t \in alive
    /\ alive' = alive \ {t}
    /\ UNCHANGED <<nextTab, activeTabs, unregistryVars>>

CleanupTimer(t) ==
    /\ t \in alive
    /\ activeTabs' = cleanupStaleTabs(activeTabs, t)
    /\ UNCHANGED <<nextTab, alive, unregistryVars>>

PromoteToLeader(t) ==
    /\ t \in alive
    /\ activeTabs' = promoteToLeader(activeTabs, t)
    /\ UNCHANGED <<nextTab, alive, unregistryVars>>

\* every running tab has updated its timestamp since the last step
OnTime == \A t \in alive : t \in Keys(activeTabs) /\ Entry(activeTabs, t).age = 0

TimelyTick ==
    /\ OnTime
    /\ activeTabs' = {Older(e, StaleAge) : e \in activeTabs}
    /\ UNCHANGED <<nextTab, alive, unregistryVars>>

NextLeader ==
    \/ RegisterTab
    \/ TimelyTick
    \/ \E t \in RegisteredIds : UnregisterTab(t)
    \/ \E t \in RegisteredIds : StopUpdating(t)
    \/ \E t \in RegisteredIds : CleanupTimer(t)
    \/ \E t \in RegisteredIds : PromoteToLeader(t)

\* the cleanup timers keep firing and time passes
SpecLeader ==
    /\ InitTabs
    /\ [][NextLeader]_vars
    /\ WF_vars(TimelyTick)
    /\ \A t \in RegisteredIds : WF_vars(CleanupTimer(t))

\* a running registered tab, and one that is leader
LiveRegistered == alive \cap Keys(activeTabs) # {}
LiveLeader == alive \cap Leaders(activeTabs) # {}

MaxSelections == 3

\* the dates picked, none of them today
OtherDates == {"2025-07-04", "2025-12-24"}

\* what getExtendedAstronomicalDataForDate resolves to
DataForDate(d) == [date |-> d, source |-> "api"]

Pending == {i \in DOMAIN dateRequests : dateRequests[i].pc = "requested"}

undateVars == <<uvVars, dayVars, apiVars, nextTab, alive, activeTabs,
                sharedData, loadPc>>

\* handleDateChange(selectedDate) up to its await
HandleDateChange(d) ==
    /\ Len(dateRequests) < MaxSelections
    /\ dateRequests' =
          Append(dateRequests,
                 [date |-> d, pc |-> "requested", overlaps |-> Pending # {}])
    /\ UNCHANGED <<currentData, timeCircle, undateVars>>

\* the request of invocation i resolves: this.currentData = data and the
\* circles are updated
DateRequestResolved(i) ==
    /\ i \in Pending
    /\ dateRequests' = [dateRequests EXCEPT ![i].pc = "done"]
    /\ currentData' =
          [currentData EXCEPT ![1] = DataForDate(dateRequests[i].date)]
    /\ timeCircle' = DataForDate(dateRequests[i].date)
    /\ UNCHANGED undateVars

\* the request of invocation i rejects: the catch block reports it
DateRequestRejected(i) ==
    /\ i \in Pending
    /\ dateRequests' = [dateRequests EXCEPT ![i].pc = "failed"]
    /\ UNCHANGED <<currentData, timeCircle, undateVars>>

NextDate ==
    \/ \E d \in OtherDates : HandleDateChange(d)
    \/ \E i \in 1..MaxSelections : DateRequestResolved(i)
    \/ \E i \in 1..MaxSelections : DateRequestRejected(i)

InitDate ==
    /\ IdleUV
    /\ equinoxSolsticeData = null
    /\ NoCall
    /\ NoOther

SpecDate == InitDate /\ [][NextDate]_vars

\* C22 as stated: when the latest invocation B started while an earlier one
\* was still waiting for its data, then once every request has resolved
\* this.currentData and the circles hold the data of B's date.
C22_LastWriteWins ==
    LET n == Len(dateRequests)
    IN  (/\ n >= 2
         /\ dateRequests[n].overlaps
         /\ \A i \in 1..n : dateRequests[i].pc = "done") =>
            /\ currentData[1] = DataForDate(dateRequests[n].date)
            /\ timeCircle = DataForDate(dateRequests[n].date)

(***************************************************************************)
(* AstronomicalAPI: the request cache, the daily cache and the calls that  *)
(* use them.  A call runs in one step; whether its request succeeds is     *)
(* chosen by the network.  Time passes in steps of four hours.             *)
(***************************************************************************)
MaxRequests == 2

cacheTimeout == 6 * 60 * 60 * 1000
CacheTick == 4 * 60 * 60 * 1000

\* the first age at which an entry is no longer valid
ExpiredAge == CeilDiv(cacheTimeout, CacheTick)

ApiLocations == {"L1", "L2"}

\* new Date() of the calls: the first date of the date parameter
Today == "2025-08-31"

\* Date.now() - cacheEntry.timestamp < this.cacheTimeout
isCacheValid(cacheEntry) == cacheEntry.age * CacheTick < cacheTimeout

\* what the service answers to the n-th request
Response(endpoint, params, loc, n) ==
    [endpoint |-> endpoint, date |-> params.date, location |-> loc,
     serial |-> n]

Returned(value) == [threw |-> FALSE, value |-> value]
Thrown(message) == [threw |-> TRUE, value |-> [error |-> message]]

\* fetchWithCache that stores what it returns after a failed request
fetchWithCache_CachesFallback(c, endpoint, params, loc, n, ok) ==
    LET cacheKey == getCacheKey(endpoint, params)
        cached == c[cacheKey]
        data == Response(endpoint, params, loc, n + 1)
    IN  IF cached # null /\ isCacheValid(cached)
        THEN [result |-> Returned(cached.data), cache |-> c,
              requested |-> FALSE]
        ELSE IF ok
        THEN [result |-> Returned(data),
              cache |-> [c EXCEPT ![cacheKey] = [data |-> data, age |-> 0]],
              requested |-> TRUE]
        ELSE IF cached # null
        THEN [result |-> Returned(cached.data),
              cache |-> [c EXCEPT ![cacheKey] =
                                      [data |-> cached.data, age |-> 0]],
              requested |-> TRUE]
        ELSE [result |-> Thrown("API request failed"), cache |-> c,
              requested |-> TRUE]

\* fetchWithCache on the cache c, the n requests sent so far and a network
\* that answers the next request (ok) or not: what it returns or throws,
\* the cache it leaves and whether it sent a request
fetchWithCache(c, endpoint, params, loc, n, ok) ==
    LET cacheKey == getCacheKey(endpoint, params)
        cached == c[cacheKey]
        data == Response(endpoint, params, loc, n + 1)
    IN  IF cached # null /\ isCacheValid(cached)
        THEN [result |-> Returned(cached.data), cache |-> c,
              requested |-> FALSE]
        ELSE IF ok
        THEN [result |-> Returned(data),
              cache |-> [c EXCEPT ![cacheKey] = [data |-> data, age |-> 0]],
              requested |-> TRUE]
        ELSE IF cached # null
        THEN [result |-> Returned(cached.data), cache |-> c,
              requested |-> TRUE]
        ELSE [result |-> Thrown("API request failed"), cache |-> c,
              requested |-> TRUE]

\* getFallbackSunData and getFallbackMoonData: computed from the date and
\* this.userLocation
FallbackData(endpoint, d, loc) ==
    [endpoint |-> endpoint, date |-> d, location |-> loc, serial |-> 0]

\* getSunData and getMoonData: the fields of the response, or the fallback
\* when fetchWithCache throws
getData(c, endpoint, d, loc, n, ok) ==
    LET fetched == fetchWithCache(c, endpoint, [date |-> d], loc, n, ok)
    IN  [result |-> IF fetched.result.threw
                    THEN Returned(FallbackData(endpoint, d, loc))
                    ELSE fetched.result,
         cache |-> fetched.cache,
         requested |-> fetched.requested]

Sent(call) == IF call.requested THEN 1 ELSE 0

unapiVars == <<uvVars, dayVars, tabVars, dateVars>>

SetUserLocation(l) ==
    /\ apiLocation' = l
    /\ apiOp' = "setUserLocation"
    /\ apiCall' = null
    /\ apiResult' = null
    /\ UNCHANGED <<apiKey, cache, dailyCache, requests, unapiVars>>

SetApiKey(k) ==
    /\ apiKey' = k
    /\ apiOp' = "setApiKey"
    /\ apiCall' = null
    /\ apiResult' = null
    /\ UNCHANGED <<apiLocation, cache, dailyCache, requests, unapiVars>>

\* four hours pass on the same day
PassTime ==
    /\ cache' = [k \in CacheKeys |->
                    IF cache[k] = null THEN null
                    ELSE Older(cache[k], ExpiredAge)]
    /\ apiOp' = "none"
    /\ apiCall' = null
    /\ apiResult' = null
    /\ UNCHANGED <<apiKey, apiLocation, dailyCache, requests, unapiVars>>

FetchWithCache(endpoint, d, ok) ==
    LET call == fetchWithCache(cache, endpoint, [date |-> d], apiLocation,
                               requests, ok)
    IN  /\ requests + Sent(call) <= MaxRequests
        /\ requests' = requests + Sent(call)
        /\ cache' = call.cache
        /\ apiOp' = "fetchWithCache"
        /\ apiCall' = [key |-> getCacheKey(endpoint, [date |-> d]),
                       requested |-> call.requested,
                       ok |-> call.requested /\ ok]
        /\ apiResult' = call.result
        /\ UNCHANGED <<apiKey, apiLocation, dailyCache, unapiVars>>

\* getSunData(date) and getMoonData(date)
GetData(endpoint, d, ok) ==
    LET call == getData(cache, endpoint, d, apiLocation, requests, ok)
    IN  /\ requests + Sent(call) <= MaxRequests
        /\ requests' = requests + Sent(call)
        /\ cache' = call.cache
        /\ apiOp' = "getData"
        /\ apiCall' = [key |-> getCacheKey(endpoint, [date |-> d]),
                       requested |-> call.requested,
                       ok |-> call.requested /\ ok]
        /\ apiResult' = call.result
        /\ UNCHANGED <<apiKey, apiLocation, dailyCache, unapiVars>>

GetExtendedAstronomicalData(okSun, okMoon) ==
    LET sun == getData(cache, "sun", Today, apiLocation, requests, okSun)
        moon == getData(sun.cache, "moon", Today, apiLocation,
                        requests + Sent(sun), okMoon)
        data == [sun |-> sun.result.value, moon |-> moon.result.value,
                 location |-> apiLocation]
    IN  /\ apiOp' = "getExtendedAstronomicalData"
        /\ IF dailyCache # null
           THEN /\ apiResult' = Returned(dailyCache)
                /\ apiCall' = [cached |-> TRUE]
                /\ UNCHANGED <<cache, dailyCache, requests>>
           ELSE /\ requests + Sent(sun) + Sent(moon) <= MaxRequests
                /\ requests' = requests + Sent(sun) + Sent(moon)
                /\ cache' = moon.cache
                /\ dailyCache' = data
                /\ apiResult' = Returned(data)
                /\ apiCall' = [cached |-> FALSE]
        /\ UNCHANGED <<apiKey, apiLocation, unapiVars>>

TestConnection(ok) ==
    LET call == getData(cache, "sun", Today, apiLocation, requests, ok)
    IN  /\ apiOp' = "testConnection"
        /\ IF apiKey = ""
           THEN /\ apiResult' = Thrown("No API key provided")
                /\ apiCall' = [key |-> getCacheKey("sun", [date |-> Today]),
                               requested |-> FALSE, ok |-> FALSE]
                /\ UNCHANGED <<cache, requests>>
           ELSE /\ requests + Sent(call) <= MaxRequests
                /\ requests' = requests + Sent(call)
                /\ cache' = call.cache
                /\ apiCall' = [key |-> getCacheKey("sun", [date |-> Today]),
                               requested |-> call.requested,
                               ok |-> call.requested /\ ok]
                /\ apiResult' =
                      Returned([success |-> ~call.result.threw,
                                message |-> IF call.result.threw
                                            THEN call.result.value.error
                                            ELSE "API connection successful"])
        /\ UNCHANGED <<apiKey, apiLocation, dailyCache, unapiVars>>

NextApi ==
    \/ PassTime
    \/ \E l \in ApiLocations : SetUserLocation(l)
    \/ \E k \in {"", "key"} : SetApiKey(k)
    \/ \E e \in Endpoints, d \in ParamDates, ok \in BOOLEAN :
          FetchWithCache(e, d, ok)
    \/ \E e \in Endpoints, d \in ParamDates, ok \in BOOLEAN :
          GetData(e, d, ok)
    \/ \E okSun \in BOOLEAN, okMoon \in BOOLEAN :
          GetExtendedAstronomicalData(okSun, okMoon)
    \/ \E ok \in BOOLEAN : TestConnection(ok)

InitApi ==
    /\ IdleUV
    /\ equinoxSolsticeData = null
    /\ NoCall
    /\ NoOther

SpecApi == InitApi /\ [][NextApi]_vars

\* C26: a fetchWithCache call sends no request while the entry of its key is
\* younger than 6 hours and returns the entry's data; when its request fails
\* it returns the data of the entry, however old, and leaves the cache as
\* it was, or throws when there is no entry; the cache changes only by the
\* entry of the key being set to the data of a successful request.
C26_CacheFallback ==
    [][apiOp' = "fetchWithCache" =>
          LET cached == cache[apiCall'.key]
              failed == apiCall'.requested /\ ~apiCall'.ok
          IN  /\ (cached # null /\ isCacheValid(cached)) =>
                    /\ ~apiCall'.requested
                    /\ apiResult' = Returned(cached.data)
              /\ (failed /\ cached # null) =>
                    apiResult' = Returned(cached.data)
              /\ (failed /\ cached = null) => apiResult'.threw
              /\ (failed \/ ~apiCall'.requested) => cache' = cache
              /\ cache' # cache =>
                    /\ apiCall'.ok
                    /\ cache'[apiCall'.key]
                          = [data |-> apiResult'.value, age |-> 0]
                    /\ \A k \in CacheKeys \ {apiCall'.key} :
                          cache'[k] = cache[k]]_vars

\* a failed request answered from an entry that is older than 6 hours
C26_Witness ==
    /\ apiOp = "fetchWithCache"
    /\ apiCall.requested
    /\ ~apiCall.ok
    /\ cache[apiCall.key] # null
    /\ ~isCacheValid(cache[apiCall.key])
    /\ apiResult = Returned(cache[apiCall.key].data)

\* C27 as stated: the data a load returns is data for the location the
\* object has at the time of the load.
C27_DataForCurrentLocation ==
    /\ apiOp = "getData" => apiResult.value.location = apiLocation
    /\ apiOp = "getExtendedAstronomicalData" =>
          /\ apiResult.value.location = apiLocation
          /\ apiResult.value.sun.location = apiLocation
          /\ apiResult.value.moon.location = apiLocation

\* C28 as stated: testConnection throws only without an API key, and does
\* not return success = true when its request failed.
C28_FailureReported ==
    apiOp = "testConnection" =>
        /\ apiResult.threw <=> apiKey = ""
        /\ (apiCall.requested /\ ~apiCall.ok) =>
              (~apiResult.threw /\ ~apiResult.value.success)

====
